---- MODULE Spec2Model ----
(***************************************************************************)
(* Audio transcription pipeline: chunk planner/extractor                   *)
(* (AudioChunkingService.js), orchestrator, single-call client and         *)
(* timestamp formatting (GroqTranscriptionService.js), validation and      *)
(* preparation, and the proxy route with its retrying fetch                *)
(* (AudioTranscriptionService.js).                                         *)
(*                                                                         *)
(* JavaScript numbers are modelled as exact rationals [n, d] in lowest     *)
(* terms (d > 0); floating-point rounding is outside the model.  Strings   *)
(* that are concatenated are sequences of one-character strings.           *)
(***************************************************************************)
EXTENDS Integers, Sequences, FiniteSets, TLC

VARIABLES
    \* ---- splitAudioIntoChunks (one call) ----
    splitPc,        \* "start" | "loop" | "returned" | "threw"
    splitIn,        \* the call's inputs: decoded buffer and chunkDurationSeconds
    audioContext,   \* "none" | "running" | "closed"
    currentSample,  \* let currentSample
    chunkIndex,     \* let chunkIndex
    splitChunks,    \* const chunks (the array being filled / returned)
    splitError,     \* the call that threw: "none" | "decodeAudioData" | "createBuffer"
    \* ---- transcribeAudio (one request) ----
    pc,             \* position of the async function
    file,           \* the uploaded file
    chunkCheck,     \* const chunkCheck
    chunks,         \* const chunks
    i,              \* loop variable
    totalText,      \* let totalText
    allSegments,    \* let allSegments
    transcriptions, \* const transcriptions
    calls,          \* history: every /api/transcribe call issued, in order
    result,         \* the value the promise resolved with, or its rejection
    onProgress,     \* options.onProgress: "absent" | "ignores" | "throws"
    notifications,  \* history: every argument onProgress was invoked with, in order
    extractions,    \* history: how many times splitAudioIntoChunks was called
    \* ---- transcribeSingleAudio called on its own ----
    singlePc,       \* "start" | "returned" | "rejected"
    singleIn,       \* options.onProgress, what the fetch gives, options.timeOffset
    singleOut,      \* the value the promise resolved with, or what it rejected with
    singleNotes,    \* every invocation of the sink, in order
    \* ---- fetchWithRetry (one call, in the proxy) ----
    fetchPc,        \* "start" | "fetching" | "sleeping" | "returned" | "threw"
    attempt,        \* loop variable
    attempts,       \* history: every fetch issued, in order, with its outcome
    timerDelay,     \* delay of the pending setTimeout, in ms
    elapsed,        \* ms elapsed since the pending setTimeout was set
    sleeps,         \* history: every backoff delay waited
    fetchOutcome,   \* the response returned or the error thrown
    \* ---- checkIfNeedsChunking called on its own ----
    classifyPc,     \* "start" | "returned"
    classifyIn,     \* the file, and the parameters maxSizeMB and maxDurationSeconds
    classifyOut,    \* the value the promise resolved with
    \* ---- two transcribeAudio requests in one process ----
    runs,           \* position, file, calls and result of each request
    frames,         \* the local variables of each invocation
    \* ---- POST /api/transcribe (one request, in the route) ----
    proxyPc,        \* "start" | "awaitFetch" | "done"
    request,        \* the request: whether GROQ_API_KEY is set, and the form
    bodyRead,       \* whether request.formData() was called
    upstream,       \* the form sent to the provider
    upstreamBody,   \* what response.json() gave for the provider answer
    proxyResponse,  \* the NextResponse returned
    \* ---- prepareForTranscription and processAudioFile (one file) ----
    preparePc,      \* "start" | "probing" | "done"
    prepareIn,      \* the file
    probes,         \* number of calls of getAudioDuration
    prepareOut,     \* what prepareForTranscription resolved with
    processOut,     \* what processAudioFile resolved with
    \* ---- formatTimestamp (one call) ----
    formatPc,       \* "start" | "done"
    formatIn,       \* seconds
    formatOut,      \* the string returned
    \* ---- audioBufferToWav (one call) ----
    wavPc,          \* "start" | "loop" | "returned"
    wavBuffer,      \* the AudioBuffer
    wavView,        \* the DataView: byte length, header fields, 16-bit values by byte offset
    wavOffset,      \* offset
    wavI,           \* i
    wavChannel,     \* channel
    wavOut,         \* the Blob returned
    \* ---- the page (Home) ----
    uiFile,         \* file
    fileInfo,       \* what prepareForTranscription gave for the file
    uiError,        \* error
    isProcessing,   \* a file is being prepared
    isTranscribing, \* a transcription is running
    transcription,  \* the result shown
    transcriptionStatus,\* the message of the last progress note
    transcriptionProgress,\* the progress shown
    selecting,      \* the file handleFileSelect is preparing
    inflight,       \* the transcribeAudio call awaited by handleTranscribe
    removedSince    \* history: handleRemoveFile ran and no transcription was started since

splitVars == <<splitPc, splitIn, audioContext, currentSample, chunkIndex, splitChunks,
               splitError>>
orchVars == <<pc, file, chunkCheck, chunks, i, totalText, allSegments, transcriptions,
              calls, result, onProgress, notifications, extractions>>
singleVars == <<singlePc, singleIn, singleOut, singleNotes>>
retryVars == <<fetchPc, attempt, attempts, timerDelay, elapsed, sleeps, fetchOutcome>>
classifyVars == <<classifyPc, classifyIn, classifyOut>>
pairVars == <<runs, frames>>
proxyVars == <<proxyPc, request, bodyRead, upstream, upstreamBody, proxyResponse>>
prepareVars == <<preparePc, prepareIn, probes, prepareOut, processOut>>
formatVars == <<formatPc, formatIn, formatOut>>
wavVars == <<wavPc, wavBuffer, wavView, wavOffset, wavI, wavChannel, wavOut>>
uiVars == <<uiFile, fileInfo, uiError, isProcessing, isTranscribing, transcription,
            transcriptionStatus, transcriptionProgress, selecting, inflight,
            removedSince>>
vars == <<splitVars, orchVars, singleVars, retryVars, classifyVars, pairVars,
          proxyVars, prepareVars, formatVars, wavVars, uiVars>>
nonSplitVars == <<orchVars, singleVars, retryVars, classifyVars, pairVars, proxyVars,
                  prepareVars, formatVars, wavVars, uiVars>>
nonOrchVars == <<splitVars, singleVars, retryVars, classifyVars, pairVars, proxyVars,
                 prepareVars, formatVars, wavVars, uiVars>>
nonSingleVars == <<splitVars, orchVars, retryVars, classifyVars, pairVars, proxyVars,
                   prepareVars, formatVars, wavVars, uiVars>>
nonRetryVars == <<splitVars, orchVars, singleVars, classifyVars, pairVars, proxyVars,
                  prepareVars, formatVars, wavVars, uiVars>>
nonClassifyVars == <<splitVars, orchVars, singleVars, retryVars, pairVars, proxyVars,
                     prepareVars, formatVars, wavVars, uiVars>>
nonPairVars == <<splitVars, orchVars, singleVars, retryVars, classifyVars, proxyVars,
                 prepareVars, formatVars, wavVars, uiVars>>
nonProxyVars == <<splitVars, orchVars, singleVars, retryVars, classifyVars, pairVars,
                  prepareVars, formatVars, wavVars, uiVars>>
nonPrepareVars == <<splitVars, orchVars, singleVars, retryVars, classifyVars, pairVars,
                    proxyVars, formatVars, wavVars, uiVars>>
nonFormatVars == <<splitVars, orchVars, singleVars, retryVars, classifyVars, pairVars,
                   proxyVars, prepareVars, wavVars, uiVars>>
nonWavVars == <<splitVars, orchVars, singleVars, retryVars, classifyVars, pairVars,
                proxyVars, prepareVars, formatVars, uiVars>>
nonUiVars == <<splitVars, orchVars, singleVars, retryVars, classifyVars, pairVars,
               proxyVars, prepareVars, formatVars, wavVars>>

----------------------------------------------------------------------------
(* Bounds of the model *)
MaxSamples == 7
MaxRate == 2
MaxChunkHalves == 4
MaxDurUnits == 4
TickMs == 500

----------------------------------------------------------------------------
(* JavaScript numbers as exact rationals *)

RECURSIVE GCD(_, _)
GCD(a, b) == IF b = 0 THEN a ELSE GCD(b, a % b)

Abs(x) == IF x < 0 THEN -x ELSE x

Rat(n, d) ==
    LET g == GCD(Abs(n), Abs(d))
        s == IF d < 0 THEN -1 ELSE 1
    IN [n |-> (s * n) \div g, d |-> (s * d) \div g]

RatInt(k) == [n |-> k, d |-> 1]
RatAdd(a, b) == Rat(a.n * b.d + b.n * a.d, a.d * b.d)
RatSub(a, b) == Rat(a.n * b.d - b.n * a.d, a.d * b.d)
RatMul(a, b) == Rat(a.n * b.n, a.d * b.d)
RatDiv(a, b) == Rat(a.n * b.d, a.d * b.n)
RatLess(a, b) == a.n * b.d < b.n * a.d
RatLeq(a, b) == a.n * b.d <= b.n * a.d
RatMin(a, b) == IF RatLess(b, a) THEN b ELSE a
RatCeil(a) == -((-a.n) \div a.d)
\* conversion of a number to an integer length: truncation toward zero
RatTrunc(a) == IF a.n >= 0 THEN a.n \div a.d ELSE -((-a.n) \div a.d)

----------------------------------------------------------------------------
(* AudioChunkingService.js: splitAudioIntoChunks *)

CHUNK_DURATION_SECONDS == 300

\* the value of a property that an object does not have
Undefined == [undefined |-> TRUE]

\* audioBuffer.duration of a decoded buffer
BufferDuration(buffer) == RatDiv(RatInt(buffer.length), RatInt(buffer.sampleRate))

\* the payload that is the uploaded file itself
FileBlob(buffer) == [kind |-> "file", frames |-> buffer.length, first |-> RatInt(0)]

\* chunks of half the duration asked for
SamplesPerChunkHalved(chunkDurationSeconds, sampleRate) ==
    RatMul(RatDiv(chunkDurationSeconds, RatInt(2)), RatInt(sampleRate))

\* const samplesPerChunk = chunkDurationSeconds * sampleRate
SamplesPerChunk(chunkDurationSeconds, sampleRate) ==
    RatMul(chunkDurationSeconds, RatInt(sampleRate))

\* const chunkSamples = Math.min(samplesPerChunk, totalSamples - currentSample)
ChunkSamples(samplesPerChunk, totalSamples, cur) ==
    RatMin(samplesPerChunk, RatSub(RatInt(totalSamples), cur))

\* audioContext.createBuffer(channels, length, rate): the length is converted to
\* an unsigned integer by truncation; a length of 0 is rejected (NotSupportedError),
\* and a negative length wraps to a frame count far beyond any allocation.
CreateBufferThrows(chunkSamples) == RatTrunc(chunkSamples) < 1

\* the early return of lines 30-37: the file itself, and no duration property
SingleChunk(buffer) ==
    [blob |-> FileBlob(buffer),
     startTime |-> RatInt(0),
     endTime |-> BufferDuration(buffer),
     index |-> 0]

\* the descriptor pushed by one iteration of the while loop
MakeChunk(buffer, chunkSamples, cur, idx) ==
    LET startTime == RatDiv(cur, RatInt(buffer.sampleRate))
        endTime == RatDiv(RatAdd(cur, chunkSamples), RatInt(buffer.sampleRate))
    IN [blob |-> [kind |-> "wav", frames |-> RatTrunc(chunkSamples), first |-> cur],
        startTime |-> startTime,
        endTime |-> endTime,
        index |-> idx,
        duration |-> RatSub(endTime, startTime)]

\* a loop that skips one sample between chunks
AdvanceSampleGap(cur, chunkSamples) == RatAdd(cur, RatAdd(chunkSamples, RatInt(1)))

\* currentSample += chunkSamples
AdvanceSample(cur, chunkSamples) == RatAdd(cur, chunkSamples)

\* an early return that a file of exactly one chunk duration does not take
FitsOneChunkStrict(buffer, chunkDurationSeconds) ==
    RatLess(BufferDuration(buffer), chunkDurationSeconds)

\* if (duration <= chunkDurationSeconds)
FitsOneChunk(buffer, chunkDurationSeconds) ==
    RatLeq(BufferDuration(buffer), chunkDurationSeconds)

\* while (currentSample < totalSamples)
LoopCondition(cur, totalSamples) == RatLess(cur, RatInt(totalSamples))

SplitInputs ==
    [length : 1..MaxSamples,
     sampleRate : 1..MaxRate,
     chunkDurationSeconds : {Rat(k, 2) : k \in (-1)..MaxChunkHalves},
     decodable : BOOLEAN]

SplitInit ==
    /\ splitPc = "start"
    /\ splitIn \in SplitInputs
    /\ audioContext = "none"
    /\ currentSample = RatInt(0)
    /\ chunkIndex = 0
    /\ splitChunks = <<>>
    /\ splitError = "none"

\* lines 15-44: create the context, decode, take the early return or enter the loop
SplitBegin ==
    /\ splitPc = "start"
    /\ audioContext' = "running"
    /\ IF ~splitIn.decodable
       THEN /\ splitPc' = "threw"
            /\ splitError' = "decodeAudioData"
            /\ splitChunks' = <<>>
       ELSE IF FitsOneChunk(splitIn, splitIn.chunkDurationSeconds)
       THEN /\ splitPc' = "returned"
            /\ splitChunks' = <<SingleChunk(splitIn)>>
            /\ UNCHANGED splitError
       ELSE /\ splitPc' = "loop"
            /\ splitChunks' = <<>>
            /\ UNCHANGED splitError
    /\ UNCHANGED <<splitIn, currentSample, chunkIndex>>
    /\ UNCHANGED nonSplitVars

\* lines 46-81: one iteration of the while loop
SplitIterate ==
    /\ splitPc = "loop"
    /\ LoopCondition(currentSample, splitIn.length)
    /\ LET samplesPerChunk ==
               SamplesPerChunk(splitIn.chunkDurationSeconds, splitIn.sampleRate)
           chunkSamples == ChunkSamples(samplesPerChunk, splitIn.length, currentSample)
       IN IF CreateBufferThrows(chunkSamples)
          THEN /\ splitPc' = "threw"
               /\ splitError' = "createBuffer"
               /\ UNCHANGED <<currentSample, chunkIndex, splitChunks>>
          ELSE /\ splitChunks' =
                      Append(splitChunks,
                             MakeChunk(splitIn, chunkSamples, currentSample, chunkIndex))
               /\ currentSample' = AdvanceSample(currentSample, chunkSamples)
               /\ chunkIndex' = chunkIndex + 1
               /\ UNCHANGED <<splitPc, splitError>>
    /\ UNCHANGED <<splitIn, audioContext>>
    /\ UNCHANGED nonSplitVars

\* lines 83-85: the loop has ended; close the context and return the chunks
SplitFinish ==
    /\ splitPc = "loop"
    /\ ~LoopCondition(currentSample, splitIn.length)
    /\ audioContext' = "closed"
    /\ splitPc' = "returned"
    /\ UNCHANGED <<splitIn, currentSample, chunkIndex, splitChunks, splitError>>
    /\ UNCHANGED nonSplitVars

\* the same loop run to its end, as the orchestrator's call sees it
RECURSIVE SplitLoop(_, _, _, _, _)
SplitLoop(buffer, samplesPerChunk, cur, idx, acc) ==
    IF ~LoopCondition(cur, buffer.length)
    THEN [threw |-> FALSE, chunks |-> acc]
    ELSE LET chunkSamples == ChunkSamples(samplesPerChunk, buffer.length, cur)
         IN IF CreateBufferThrows(chunkSamples)
            THEN [threw |-> TRUE, chunks |-> <<>>]
            ELSE SplitLoop(buffer, samplesPerChunk, AdvanceSample(cur, chunkSamples),
                           idx + 1,
                           Append(acc, MakeChunk(buffer, chunkSamples, cur, idx)))

splitAudioIntoChunks(buffer, chunkDurationSeconds) ==
    IF FitsOneChunk(buffer, chunkDurationSeconds)
    THEN [threw |-> FALSE, chunks |-> <<SingleChunk(buffer)>>]
    ELSE SplitLoop(buffer, SamplesPerChunk(chunkDurationSeconds, buffer.sampleRate),
                   RatInt(0), 0, <<>>)

----------------------------------------------------------------------------
(* AudioChunkingService.js: checkIfNeedsChunking *)

Null == [null |-> TRUE]

\* defaults of the parameters maxSizeMB and maxDurationSeconds
DEFAULT_MAX_SIZE_MB == 25
DEFAULT_MAX_DURATION_SECONDS == 300

BytesPerMB == 1024 * 1024

\* what getAudioDuration resolves with when the metadata loads
ProbedDuration(f) == BufferDuration(f)

\* a comparison that counts a value at its limit as over it
ExceedsOrEqual(value, limit) == RatLeq(limit, value)

\* fileSizeMB > maxSizeMB, duration > maxDurationSeconds
Exceeds(value, limit) == RatLess(limit, value)

\* an estimate that does not count a started chunk
EstimateByDurationFloor(duration) ==
    RatTrunc(RatDiv(duration, RatInt(CHUNK_DURATION_SECONDS)))

\* Math.ceil(duration / CHUNK_DURATION_SECONDS)
EstimateByDuration(duration) ==
    RatCeil(RatDiv(duration, RatInt(CHUNK_DURATION_SECONDS)))

\* an estimate that does not count a started 10 MB piece
EstimateBySizeFloor(fileSizeMB) == RatTrunc(RatDiv(fileSizeMB, RatInt(10)))

\* Math.ceil(fileSizeMB / 10)
EstimateBySize(fileSizeMB) == RatCeil(RatDiv(fileSizeMB, RatInt(10)))

checkIfNeedsChunking(f, maxSizeMB, maxDurationSeconds) ==
    LET fileSizeMB == Rat(f.size, BytesPerMB)
        tooBig == Exceeds(fileSizeMB, RatInt(maxSizeMB))
    IN IF f.probeOk
       THEN LET duration == ProbedDuration(f)
                byDuration == EstimateByDuration(duration)
            IN IF tooBig
               THEN [needsChunking |-> TRUE,
                     reason |-> [cites |-> "size", withValue |-> TRUE],
                     duration |-> duration,
                     estimatedChunks |-> byDuration]
               ELSE IF Exceeds(duration, RatInt(maxDurationSeconds))
               THEN [needsChunking |-> TRUE,
                     reason |-> [cites |-> "duration", withValue |-> TRUE],
                     duration |-> duration,
                     estimatedChunks |-> byDuration]
               ELSE [needsChunking |-> FALSE,
                     reason |-> Null,
                     duration |-> duration,
                     estimatedChunks |-> 1]
       ELSE [needsChunking |-> tooBig,
             reason |-> IF tooBig THEN [cites |-> "size", withValue |-> FALSE] ELSE Null,
             duration |-> Null,
             estimatedChunks |->
                 IF tooBig THEN EstimateBySize(fileSizeMB) ELSE 1]

\* the size limits, and the file sizes around each of them, that the calls use
SizeLimitsMB == {1, DEFAULT_MAX_SIZE_MB}
ClassifySizes == {m * BytesPerMB + e : m \in SizeLimitsMB, e \in {-1, 0, 1}}

\* the duration limits, and the durations around each of them, in seconds
DurationLimits == {(CHUNK_DURATION_SECONDS \div 2) * k : k \in 1..MaxDurUnits}
ClassifyDurations == {d + e : d \in DurationLimits, e \in {-1, 0, 1}}

ClassifyInputs ==
    [size : ClassifySizes,
     length : ClassifyDurations,
     sampleRate : {1},
     probeOk : BOOLEAN,
     maxSizeMB : SizeLimitsMB,
     maxDurationSeconds : DurationLimits]

ClassifyInit ==
    /\ classifyPc = "start"
    /\ classifyIn \in ClassifyInputs
    /\ classifyOut = Undefined

ClassifyIdle ==
    /\ classifyPc = "idle"
    /\ classifyIn = Undefined
    /\ classifyOut = Undefined

\* lines 178-217: one call with explicit limits
ClassifyCall ==
    /\ classifyPc = "start"
    /\ classifyOut' = checkIfNeedsChunking(classifyIn, classifyIn.maxSizeMB,
                                           classifyIn.maxDurationSeconds)
    /\ classifyPc' = "returned"
    /\ UNCHANGED classifyIn
    /\ UNCHANGED nonClassifyVars

----------------------------------------------------------------------------
(* GroqTranscriptionService.js: transcribeSingleAudio *)

Texts == {<<>>, <<"a">>, <<"b">>}

\* segments in the time of the uploaded payload, as the provider returns them
Seg0 == [id |-> 0, start |-> RatInt(0), end |-> Rat(3, 2), text |-> <<"a">>]
Seg1 == [id |-> 1, start |-> Rat(3, 2), end |-> RatInt(4), text |-> <<"b">>]
SegLists == {<<>>, <<Seg0, Seg1>>}

\* JSON bodies of a 200 answer of /api/transcribe: the plain format carries no
\* duration and no segments, the verbose format (asked for with timestamps) both
OkBodies(includeTimestamps) ==
    {[success |-> TRUE, text |-> t, language |-> "en"] : t \in Texts}
    \cup (IF includeTimestamps
          THEN {[success |-> TRUE, text |-> t, language |-> "en",
                 duration |-> RatInt(4), segments |-> sl] :
                    t \in Texts, sl \in SegLists}
          ELSE {})

\* what one fetch of /api/transcribe can give the client: an answer with a JSON
\* body, a rejection of the fetch, or an answer whose body response.json() rejects
Responses(includeTimestamps) ==
    {[kind |-> "ok", body |-> b] : b \in OkBodies(includeTimestamps)}
    \cup {[kind |-> "notOk", body |-> [error |-> "upstream rejected"]],
          [kind |-> "notOk", body |-> [details |-> "none"]],
          [kind |-> "threw", message |-> "Failed to fetch"],
          [kind |-> "unparseable", message |-> "Unexpected token < in JSON"]}

\* a shift that moves the start of a segment but not its end
ShiftSegmentStartOnly(seg, timeOffset) ==
    [seg EXCEPT !.start = RatAdd(seg.start, timeOffset)]

\* lines 55-59: segments.map(seg => ({...seg, start: seg.start + timeOffset, ...}))
ShiftSegment(seg, timeOffset) ==
    [seg EXCEPT !.start = RatAdd(seg.start, timeOffset),
                !.end = RatAdd(seg.end, timeOffset)]

\* a shift applied whatever the offset is
\* the segments left on the chunk's own time line
AdjustSegmentsNever(segments, timeOffset) == segments

AdjustSegmentsAlways(segments, timeOffset) ==
    [k \in 1..Len(segments) |-> ShiftSegment(segments[k], timeOffset)]

\* lines 53-60
AdjustSegments(segments, timeOffset) ==
    IF RatLess(RatInt(0), timeOffset) /\ Len(segments) > 0
    THEN [k \in 1..Len(segments) |-> ShiftSegment(segments[k], timeOffset)]
    ELSE segments

\* the value transcribeSingleAudio resolves with, given what the fetch gave
transcribeSingleAudio(response, timeOffset) ==
    IF response.kind \in {"threw", "unparseable"}
    THEN [success |-> FALSE, error |-> response.message]
    ELSE IF response.kind = "notOk"
    THEN [success |-> FALSE,
          error |-> IF "error" \in DOMAIN response.body
                    THEN response.body.error
                    ELSE "Failed to transcribe audio"]
    ELSE LET body == response.body
         IN [success |-> TRUE,
             text |-> body.text,
             language |-> body.language,
             duration |-> IF "duration" \in DOMAIN body THEN body.duration ELSE Undefined,
             segments |-> AdjustSegments(IF "segments" \in DOMAIN body
                                         THEN body.segments ELSE <<>>,
                                         timeOffset)]

----------------------------------------------------------------------------
(* GroqTranscriptionService.js: transcribeAudio *)
(* The request is followed from one await to the next.  The caller's        *)
(* onProgress is absent, returns normally, or throws each time it is called; *)
(* a sink that throws does so at the first notification (line 93), which    *)
(* ends the request, so the later notifications are only reached by a sink  *)
(* that is absent or returns.                                               *)

MaxSizeBytes == DEFAULT_MAX_SIZE_MB * BytesPerMB

\* durations in seconds of the uploaded files: around the multiples of half a chunk
FileDurations ==
    {(CHUNK_DURATION_SECONDS \div 2) * k + e : k \in 1..MaxDurUnits, e \in {0, 1}}

Files ==
    {[size |-> sz, length |-> dur * rate, sampleRate |-> rate, probeOk |-> p,
      decodable |-> dec, includeTimestamps |-> ts] :
        sz \in {MaxSizeBytes, MaxSizeBytes + 1},
        dur \in FileDurations,
        rate \in 1..MaxRate,
        p \in BOOLEAN, dec \in BOOLEAN, ts \in BOOLEAN}

\* a property of a descriptor, undefined when the descriptor does not have it
ChunkDuration(chunk) == IF "duration" \in DOMAIN chunk THEN chunk.duration ELSE Undefined

\* lines 151-157: the summary pushed for a transcribed chunk
ChunkSummary(idx, chunk, text) ==
    [chunkIndex |-> idx, startTime |-> chunk.startTime, endTime |-> chunk.endTime,
     duration |-> ChunkDuration(chunk), text |-> text]

\* text appended with a separator whatever was accumulated
AppendTextAlwaysSpace(acc, text) == acc \o <<" ">> \o text

\* line 164: totalText += (totalText ? " " : "") + result.text
AppendText(acc, text) == acc \o (IF acc # <<>> THEN <<" ">> ELSE <<>>) \o text

\* a loop that goes on after a failed chunk
StopsOnFailureNever(r) == FALSE

\* line 139: if (!result.success)
StopsOnFailure(r) == ~r.success

\* a partial result that counts the failed chunk as completed
PartialFailureOffByOne(idx, r, text, segments, total) ==
    [success |-> FALSE,
     error |-> [prefix |-> "Failed to transcribe chunk", chunk |-> idx + 1,
                error |-> r.error],
     partialText |-> text, segments |-> segments,
     completedChunks |-> idx + 1, totalChunks |-> total]

\* lines 141-148: the partial result returned when chunk idx failed
PartialFailure(idx, r, text, segments, total) ==
    [success |-> FALSE,
     error |-> [prefix |-> "Failed to transcribe chunk", chunk |-> idx + 1,
                error |-> r.error],
     partialText |-> text, segments |-> segments,
     completedChunks |-> idx, totalChunks |-> total]

\* lines 173-181
ChunkedSuccess(text, segments, summaries, check) ==
    [success |-> TRUE, text |-> text, segments |-> segments, chunks |-> summaries,
     language |-> "en", totalDuration |-> check.duration, wasChunked |-> TRUE]

\* a decision that sends every file through the extractor
GoesDirectNever(check) == FALSE

\* line 97: if (!chunkCheck.needsChunking)
GoesDirect(check) == ~check.needsChunking

\* the record of one call of /api/transcribe
Call(idx, blob, timeOffset) ==
    [chunk |-> idx, payload |-> blob, timeOffset |-> timeOffset, status |-> "pending"]

\* the record of a call that has returned: what the fetch gave, and the value
\* transcribeSingleAudio resolved with
Returned(call, response, r) ==
    [chunk |-> call.chunk, payload |-> call.payload, timeOffset |-> call.timeOffset,
     status |-> IF r.success THEN "ok" ELSE "failed",
     response |-> response, returned |-> r]

SinkModes == {"absent", "ignores", "throws"}

\* onProgress?.(note): the sink, when there is one, is invoked with the note
Notify(sink, log, note) == IF sink = "absent" THEN log ELSE Append(log, note)

\* line 93
NoteAnalyzing ==
    [status |-> "analyzing", message |-> [template |-> "Analyzing audio file..."]]

\* lines 103-106
NoteChunking(check) ==
    [status |-> "chunking",
     message |-> [template |-> "Splitting audio into ~N chunks...",
                  N |-> check.estimatedChunks]]

\* lines 110-114
NoteTranscribingChunks(total) ==
    [status |-> "transcribing",
     message |-> [template |-> "Transcribing N chunks...", N |-> total],
     totalChunks |-> total]

\* a per-chunk notification that counts the chunk about to be uploaded as done
NoteChunkCountsCurrent(idx, total) ==
    [status |-> "transcribing",
     message |-> [template |-> "Transcribing chunk K of N...", K |-> idx + 1, N |-> total],
     progress |-> RatMul(Rat(idx + 1, total), RatInt(100)),
     currentChunk |-> idx + 1,
     totalChunks |-> total]

\* lines 124-130
NoteChunk(idx, total) ==
    [status |-> "transcribing",
     message |-> [template |-> "Transcribing chunk K of N...", K |-> idx + 1, N |-> total],
     progress |-> RatMul(Rat(idx, total), RatInt(100)),
     currentChunk |-> idx + 1,
     totalChunks |-> total]

\* lines 167-171
NoteAllChunks ==
    [status |-> "completed", message |-> [template |-> "All chunks transcribed!"],
     progress |-> RatInt(100)]

\* lines 71 and 184: the message is the caught error's
NoteError(error) == [status |-> "error", message |-> [template |-> error]]

\* lines 23, 37 and 50, in transcribeSingleAudio when it is given the sink
NoteUploading ==
    [status |-> "uploading", message |-> [template |-> "Uploading audio file..."]]
NoteTranscribing ==
    [status |-> "transcribing", message |-> [template |-> "Transcribing audio..."]]
NoteCompleted ==
    [status |-> "completed", message |-> [template |-> "Transcription complete!"]]

\* what the sink throws
SinkError == "onProgress threw"

\* the promise is rejected: the catch block's own notification threw
Rejected(error) == [rejected |-> TRUE, error |-> error]

\* a failure caught at line 183 and returned as the request's result
CaughtFailure(error) == [success |-> FALSE, error |-> error]

\* error.message of what splitAudioIntoChunks threw: the decoder's error when the
\* file cannot be decoded, createBuffer's otherwise
DecodeErrorMessage == "Unable to decode audio data"
CreateBufferErrorMessage == "createBuffer failed"

\* a message of the orchestrator's own in place of the error's
ExtractionErrorGeneric(f) == "Transcription failed"

\* lines 183-187: error.message
ExtractionError(f) ==
    IF ~f.decodable THEN DecodeErrorMessage ELSE CreateBufferErrorMessage

OrchInit ==
    /\ pc = "start"
    /\ onProgress \in SinkModes
    /\ notifications = <<>>
    /\ extractions = 0
    /\ file \in Files
    /\ chunkCheck = Undefined
    /\ chunks = <<>>
    /\ i = 0
    /\ totalText = <<>>
    /\ allSegments = <<>>
    /\ transcriptions = <<>>
    /\ calls = <<>>
    /\ result = Undefined

\* lines 91-95: notify, then analyse the file.  A sink that throws at line 93
\* is caught at line 183, invoked again at line 184 and throws out of the catch
\* block: the promise is rejected
Analyze ==
    /\ pc = "start"
    /\ IF onProgress = "throws"
       THEN /\ notifications' = notifications \o <<NoteAnalyzing, NoteError(SinkError)>>
            /\ result' = Rejected(SinkError)
            /\ pc' = "done"
            /\ UNCHANGED chunkCheck
       ELSE /\ notifications' = Notify(onProgress, notifications, NoteAnalyzing)
            /\ chunkCheck' = checkIfNeedsChunking(file, DEFAULT_MAX_SIZE_MB,
                                                  DEFAULT_MAX_DURATION_SECONDS)
            /\ pc' = "analyzed"
            /\ UNCHANGED result
    /\ UNCHANGED <<file, chunks, i, totalText, allSegments, transcriptions, calls,
                   onProgress, extractions>>
    /\ UNCHANGED nonOrchVars

\* lines 97-99 and 19-42: no chunking; the file itself is uploaded, no time offset
TranscribeDirect ==
    /\ pc = "analyzed"
    /\ GoesDirect(chunkCheck)
    /\ notifications' = Notify(onProgress,
                               Notify(onProgress, notifications, NoteUploading),
                               NoteTranscribing)
    /\ calls' = Append(calls, Call(-1, FileBlob(file), RatInt(0)))
    /\ pc' = "awaitDirect"
    /\ UNCHANGED <<file, chunkCheck, chunks, i, totalText, allSegments, transcriptions,
                   result, onProgress, extractions>>
    /\ UNCHANGED nonOrchVars

\* lines 44-76 and 99: the single call's outcome is the request's result
DirectReturn ==
    /\ pc = "awaitDirect"
    /\ \E response \in Responses(file.includeTimestamps) :
          LET r == transcribeSingleAudio(response, RatInt(0))
          IN /\ calls' = [calls EXCEPT ![Len(calls)] = Returned(@, response, r)]
             /\ notifications' =
                    Notify(onProgress, notifications,
                           IF r.success THEN NoteCompleted ELSE NoteError(r.error))
             /\ result' = r
    /\ pc' = "done"
    /\ UNCHANGED <<file, chunkCheck, chunks, i, totalText, allSegments, transcriptions,
                   onProgress, extractions>>
    /\ UNCHANGED nonOrchVars

\* lines 103-108: notify, then call splitAudioIntoChunks
Chunking ==
    /\ pc = "analyzed"
    /\ ~GoesDirect(chunkCheck)
    /\ notifications' = Notify(onProgress, notifications, NoteChunking(chunkCheck))
    /\ extractions' = extractions + 1
    /\ pc' = "extracting"
    /\ UNCHANGED <<file, chunkCheck, chunks, i, totalText, allSegments, transcriptions,
                   calls, result, onProgress>>
    /\ UNCHANGED nonOrchVars

\* lines 108-119 and 183-189: splitAudioIntoChunks has settled; a failure of the
\* decoder or of the extractor is caught and reported as the request's result
Extracted ==
    /\ pc = "extracting"
    /\ LET split == IF file.decodable
                    THEN splitAudioIntoChunks(file, RatInt(CHUNK_DURATION_SECONDS))
                    ELSE [threw |-> TRUE, chunks |-> <<>>]
       IN IF split.threw
          THEN /\ notifications' =
                      Notify(onProgress, notifications, NoteError(ExtractionError(file)))
               /\ result' = CaughtFailure(ExtractionError(file))
               /\ pc' = "done"
               /\ UNCHANGED chunks
          ELSE /\ notifications' =
                      Notify(onProgress, notifications,
                             NoteTranscribingChunks(Len(split.chunks)))
               /\ chunks' = split.chunks
               /\ pc' = "loop"
               /\ UNCHANGED result
    /\ i' = 0
    /\ UNCHANGED <<file, chunkCheck, totalText, allSegments, transcriptions, calls,
                   onProgress, extractions>>
    /\ UNCHANGED nonOrchVars

\* lines 121-137 and 19-42: notify, then upload chunk i
CallChunk ==
    /\ pc = "loop"
    /\ i < Len(chunks)
    /\ notifications' = Notify(onProgress, notifications, NoteChunk(i, Len(chunks)))
    /\ calls' = Append(calls, Call(i, chunks[i + 1].blob, chunks[i + 1].startTime))
    /\ pc' = "awaitChunk"
    /\ UNCHANGED <<file, chunkCheck, chunks, i, totalText, allSegments, transcriptions,
                   result, onProgress, extractions>>
    /\ UNCHANGED nonOrchVars

\* lines 44-76 and 139-165: the call for chunk i has returned (only a successful
\* result reaches the lines after the early return, so only its text and segments
\* are read there).  The call was made without the sink (lines 132-137) and
\* neither branch notifies
ChunkReturn ==
    /\ pc = "awaitChunk"
    /\ \E response \in Responses(file.includeTimestamps) :
          LET chunk == chunks[i + 1]
              r == transcribeSingleAudio(response, chunk.startTime)
          IN /\ calls' = [calls EXCEPT ![Len(calls)] = Returned(@, response, r)]
             /\ IF StopsOnFailure(r)
                THEN /\ result' = PartialFailure(i, r, totalText, allSegments, Len(chunks))
                     /\ pc' = "done"
                     /\ UNCHANGED <<i, totalText, allSegments, transcriptions>>
                ELSE /\ transcriptions' =
                            Append(transcriptions,
                                   ChunkSummary(i, chunk,
                                                IF r.success THEN r.text ELSE <<>>))
                     /\ allSegments' = allSegments \o (IF r.success THEN r.segments ELSE <<>>)
                     /\ totalText' = AppendText(totalText, IF r.success THEN r.text ELSE <<>>)
                     /\ i' = i + 1
                     /\ pc' = "loop"
                     /\ UNCHANGED result
    /\ UNCHANGED <<file, chunkCheck, chunks, onProgress, notifications, extractions>>
    /\ UNCHANGED nonOrchVars

\* lines 167-181: every chunk is transcribed
Complete ==
    /\ pc = "loop"
    /\ ~(i < Len(chunks))
    /\ notifications' = Notify(onProgress, notifications, NoteAllChunks)
    /\ result' = ChunkedSuccess(totalText, allSegments, transcriptions, chunkCheck)
    /\ pc' = "done"
    /\ UNCHANGED <<file, chunkCheck, chunks, i, totalText, allSegments, transcriptions,
                   calls, onProgress, extractions>>
    /\ UNCHANGED nonOrchVars

SplitIdle ==
    /\ splitPc = "idle"
    /\ splitIn = Undefined
    /\ audioContext = "none"
    /\ currentSample = RatInt(0)
    /\ chunkIndex = 0
    /\ splitChunks = <<>>
    /\ splitError = "none"

OrchIdle ==
    /\ pc = "idle"
    /\ file = Undefined
    /\ chunkCheck = Undefined
    /\ chunks = <<>>
    /\ i = 0
    /\ totalText = <<>>
    /\ allSegments = <<>>
    /\ transcriptions = <<>>
    /\ calls = <<>>
    /\ result = Undefined
    /\ onProgress = "absent"
    /\ notifications = <<>>
    /\ extractions = 0

----------------------------------------------------------------------------
(* transcribeSingleAudio called directly, with any options.timeOffset *)

TimeOffsets == {RatInt(-1), Rat(-1, 2), RatInt(0), Rat(1, 2), RatInt(CHUNK_DURATION_SECONDS)}

\* the sinks a call is given: those of the orchestrator, and one that throws
\* only when it is told of an error
SingleSinkModes == SinkModes \cup {"throwsOnError"}

SingleInputs ==
    {[onProgress |-> sink, response |-> r, timeOffset |-> o] :
        sink \in SingleSinkModes,
        r \in Responses(TRUE) \cup Responses(FALSE), o \in TimeOffsets}

SingleInit ==
    /\ singlePc = "start"
    /\ singleIn \in SingleInputs
    /\ singleOut = Undefined
    /\ singleNotes = <<>>

SingleIdle ==
    /\ singlePc = "idle"
    /\ singleIn = Undefined
    /\ singleOut = Undefined
    /\ singleNotes = <<>>

\* line 71: the notification of the catch block is not guarded, and it tells
\* of an error
SinkThrowsInCatch(sink) == sink \in {"throws", "throwsOnError"}

\* lines 19-77: the whole call.  A sink that throws at line 23 takes the call
\* to the catch block before the fetch is made
SingleCall ==
    /\ singlePc = "start"
    /\ LET sink == singleIn.onProgress
           r == IF sink = "throws"
                THEN [success |-> FALSE, error |-> SinkError]
                ELSE transcribeSingleAudio(singleIn.response, singleIn.timeOffset)
           before == IF sink = "throws"
                     THEN <<NoteUploading>>
                     ELSE Notify(sink, Notify(sink, <<>>, NoteUploading), NoteTranscribing)
       IN /\ singleNotes' = Notify(sink, before,
                                   IF r.success THEN NoteCompleted ELSE NoteError(r.error))
          /\ IF ~r.success /\ SinkThrowsInCatch(sink)
             THEN /\ singleOut' = Rejected(SinkError)
                  /\ singlePc' = "rejected"
             ELSE /\ singleOut' = r
                  /\ singlePc' = "returned"
    /\ UNCHANGED singleIn
    /\ UNCHANGED nonSingleVars

----------------------------------------------------------------------------
(* AudioTranscriptionService.js (route): fetchWithRetry *)

MAX_RETRIES == 3
RETRY_DELAY_MS == 1000

\* what a fetch of the provider can reject with: error.cause.code and whether
\* error.message contains 'fetch failed'
FetchErrors ==
    [code : {"ETIMEDOUT", "ECONNRESET", "ENOTFOUND", "none"}, fetchFailed : BOOLEAN]

\* what a fetch of the provider can resolve with: any HTTP status
FetchResponses == {[status |-> st, ok |-> st = 200] : st \in {200, 400, 429, 500}}

\* a retry of every error
IsRetryableAlways(error) == TRUE

\* a retry of every error that has a cause code
IsRetryableByCause(error) == error.code # "none" \/ error.fetchFailed

\* lines 283-285
IsRetryable(error) ==
    \/ error.code = "ETIMEDOUT"
    \/ error.code = "ECONNRESET"
    \/ error.fetchFailed

\* one attempt more than the limit
IsLastAttemptLate(n, retries) == n = retries + 1

\* line 282
IsLastAttempt(n, retries) == n = retries

\* the same delay after every attempt
RetryDelayConstant(n) == RETRY_DELAY_MS

\* line 292: RETRY_DELAY_MS * attempt
RetryDelay(n) == RETRY_DELAY_MS * n

RetryInit ==
    /\ fetchPc = "start"
    /\ attempt = 0
    /\ attempts = <<>>
    /\ timerDelay = 0
    /\ elapsed = 0
    /\ sleeps = <<>>
    /\ fetchOutcome = Undefined

RetryIdle ==
    /\ fetchPc = "idle"
    /\ attempt = 0
    /\ attempts = <<>>
    /\ timerDelay = 0
    /\ elapsed = 0
    /\ sleeps = <<>>
    /\ fetchOutcome = Undefined

\* lines 276-279: enter the loop and issue the first fetch
FetchWithRetryCall ==
    /\ fetchPc = "start"
    /\ attempt' = 1
    /\ attempts' = <<[n |-> 1, status |-> "pending"]>>
    /\ fetchPc' = "fetching"
    /\ UNCHANGED <<timerDelay, elapsed, sleeps, fetchOutcome>>
    /\ UNCHANGED nonRetryVars

\* lines 279-280: the fetch resolves, whatever the status; the response is returned
FetchResolves ==
    /\ fetchPc = "fetching"
    /\ \E response \in FetchResponses :
          /\ attempts' = [attempts EXCEPT ![Len(attempts)] =
                              [n |-> attempt, status |-> "resolved", response |-> response]]
          /\ fetchOutcome' = [returned |-> response, at |-> attempt]
    /\ fetchPc' = "returned"
    /\ UNCHANGED <<attempt, timerDelay, elapsed, sleeps>>
    /\ UNCHANGED nonRetryVars

\* lines 281-292: the fetch rejects; rethrow, or set the backoff timer
FetchRejects ==
    /\ fetchPc = "fetching"
    /\ \E error \in FetchErrors :
          /\ attempts' = [attempts EXCEPT ![Len(attempts)] =
                              [n |-> attempt, status |-> "rejected", error |-> error]]
          /\ IF IsLastAttempt(attempt, MAX_RETRIES) \/ ~IsRetryable(error)
             THEN /\ fetchOutcome' = [thrown |-> error, at |-> attempt]
                  /\ fetchPc' = "threw"
                  /\ UNCHANGED <<timerDelay, elapsed, sleeps>>
             ELSE /\ timerDelay' = RetryDelay(attempt)
                  /\ elapsed' = 0
                  /\ sleeps' = Append(sleeps, [after |-> attempt,
                                               delay |-> RetryDelay(attempt),
                                               status |-> "waiting"])
                  /\ fetchPc' = "sleeping"
                  /\ UNCHANGED fetchOutcome
    /\ UNCHANGED attempt
    /\ UNCHANGED nonRetryVars

\* time passes while the timer is pending
Tick ==
    /\ fetchPc = "sleeping"
    /\ elapsed < timerDelay + TickMs
    /\ elapsed' = elapsed + TickMs
    /\ UNCHANGED <<fetchPc, attempt, attempts, timerDelay, sleeps, fetchOutcome>>
    /\ UNCHANGED nonRetryVars

\* setTimeout(resolve, delay): the callback runs once the delay has elapsed
TimerMayFire(delay, waited) == waited >= delay

\* lines 292, 277-279: the timer fires, the loop goes on and issues the next fetch;
\* a loop whose condition fails falls out of the function, which returns undefined
Wake ==
    /\ fetchPc = "sleeping"
    /\ TimerMayFire(timerDelay, elapsed)
    /\ sleeps' = [sleeps EXCEPT ![Len(sleeps)] =
                      [after |-> @.after, delay |-> @.delay, status |-> "woken",
                       waited |-> elapsed]]
    /\ attempt' = attempt + 1
    /\ IF attempt + 1 <= MAX_RETRIES
       THEN /\ attempts' = Append(attempts, [n |-> attempt + 1, status |-> "pending"])
            /\ fetchPc' = "fetching"
            /\ UNCHANGED fetchOutcome
       ELSE /\ fetchOutcome' = [returned |-> Undefined, at |-> attempt]
            /\ fetchPc' = "returned"
            /\ UNCHANGED attempts
    /\ timerDelay' = 0
    /\ elapsed' = 0
    /\ UNCHANGED nonRetryVars

----------------------------------------------------------------------------
(* Two transcribeAudio requests in one process *)
(* The services keep no module-level variable but constants: every let and   *)
(* const of transcribeAudio and splitAudioIntoChunks belongs to the          *)
(* invocation.  Two requests, neither given a sink, are followed from one    *)
(* suspension point to the next, in any interleaving.                        *)

Requests == {1, 2}

\* an invocation whose let and const bindings are those of the first invocation
FrameOfFirst(r) == 1

\* lines 89-119: the bindings of invocation r are created by that invocation
Frame(r) == r

\* files of one or two chunks, or none, and three answers of /api/transcribe
PairFiles ==
    {f \in Files : /\ f.probeOk
                   /\ f.includeTimestamps
                   /\ f.sampleRate = 1
                   /\ f.length \in {CHUNK_DURATION_SECONDS \div 2,
                                    CHUNK_DURATION_SECONDS + 1}}
PairResponses ==
    {[kind |-> "ok",
      body |-> [success |-> TRUE, text |-> <<"a">>, language |-> "en",
                duration |-> RatInt(4), segments |-> <<Seg0, Seg1>>]],
     [kind |-> "ok", body |-> [success |-> TRUE, text |-> <<"b">>, language |-> "en"]],
     [kind |-> "threw", message |-> "Failed to fetch"]}

NewFrame ==
    [chunkCheck |-> Undefined, chunks |-> <<>>, i |-> 0, totalText |-> <<>>,
     allSegments |-> <<>>, transcriptions |-> <<>>]

PairInit ==
    /\ runs \in [Requests -> {[pc |-> "start", file |-> f, calls |-> <<>>,
                               result |-> Undefined] : f \in PairFiles}]
    /\ frames = [r \in Requests |-> NewFrame]

PairIdle ==
    /\ runs = <<>>
    /\ frames = <<>>

\* the bindings request r reads and writes
Locals(r) == frames[Frame(r)]

\* lines 91-95: the duration probe of request r has settled
PairAnalyze(r) ==
    /\ runs[r].pc = "start"
    /\ frames' = [frames EXCEPT ![Frame(r)].chunkCheck =
                      checkIfNeedsChunking(runs[r].file, DEFAULT_MAX_SIZE_MB,
                                           DEFAULT_MAX_DURATION_SECONDS)]
    /\ runs' = [runs EXCEPT ![r].pc = "analyzed"]
    /\ UNCHANGED nonPairVars

\* lines 97-99 and 19-42: request r uploads its file
PairTranscribeDirect(r) ==
    /\ runs[r].pc = "analyzed"
    /\ GoesDirect(Locals(r).chunkCheck)
    /\ runs' = [runs EXCEPT ![r].pc = "awaitDirect",
                            ![r].calls = Append(@, Call(-1, FileBlob(runs[r].file),
                                                        RatInt(0)))]
    /\ UNCHANGED frames
    /\ UNCHANGED nonPairVars

\* lines 44-76 and 99: the single call of request r has returned
PairDirectReturn(r) ==
    /\ runs[r].pc = "awaitDirect"
    /\ \E response \in PairResponses :
          LET res == transcribeSingleAudio(response, RatInt(0))
          IN runs' = [runs EXCEPT
                          ![r].pc = "done",
                          ![r].calls[Len(runs[r].calls)] = Returned(@, response, res),
                          ![r].result = res]
    /\ UNCHANGED frames
    /\ UNCHANGED nonPairVars

\* lines 103-108: request r calls splitAudioIntoChunks, which awaits the decoder
PairChunking(r) ==
    /\ runs[r].pc = "analyzed"
    /\ ~GoesDirect(Locals(r).chunkCheck)
    /\ runs' = [runs EXCEPT ![r].pc = "extracting"]
    /\ UNCHANGED frames
    /\ UNCHANGED nonPairVars

\* lines 108-119 and 183-189: the extraction of request r has settled; the
\* accumulators are created
PairExtracted(r) ==
    /\ runs[r].pc = "extracting"
    /\ LET f == runs[r].file
           split == IF f.decodable
                    THEN splitAudioIntoChunks(f, RatInt(CHUNK_DURATION_SECONDS))
                    ELSE [threw |-> TRUE, chunks |-> <<>>]
       IN IF split.threw
          THEN /\ runs' = [runs EXCEPT ![r].pc = "done",
                                       ![r].result = CaughtFailure(ExtractionError(f))]
               /\ UNCHANGED frames
          ELSE /\ runs' = [runs EXCEPT ![r].pc = "loop"]
               /\ frames' = [frames EXCEPT ![Frame(r)].chunks = split.chunks,
                                           ![Frame(r)].i = 0,
                                           ![Frame(r)].transcriptions = <<>>,
                                           ![Frame(r)].totalText = <<>>,
                                           ![Frame(r)].allSegments = <<>>]
    /\ UNCHANGED nonPairVars

\* lines 121-137 and 19-42: request r uploads its chunk i
PairCallChunk(r) ==
    /\ runs[r].pc = "loop"
    /\ Locals(r).i < Len(Locals(r).chunks)
    /\ LET chunk == Locals(r).chunks[Locals(r).i + 1]
       IN runs' = [runs EXCEPT ![r].pc = "awaitChunk",
                               ![r].calls = Append(@, Call(Locals(r).i, chunk.blob,
                                                           chunk.startTime))]
    /\ UNCHANGED frames
    /\ UNCHANGED nonPairVars

\* lines 44-76 and 139-165: the call for chunk i of request r has returned
PairChunkReturn(r) ==
    /\ runs[r].pc = "awaitChunk"
    /\ Locals(r).i < Len(Locals(r).chunks)
    /\ \E response \in PairResponses :
          LET loc == Locals(r)
              chunk == loc.chunks[loc.i + 1]
              res == transcribeSingleAudio(response, chunk.startTime)
              returned == [runs EXCEPT ![r].calls[Len(runs[r].calls)] =
                                            Returned(@, response, res)]
          IN IF StopsOnFailure(res)
             THEN /\ runs' = [returned EXCEPT
                                  ![r].pc = "done",
                                  ![r].result = PartialFailure(loc.i, res, loc.totalText,
                                                               loc.allSegments,
                                                               Len(loc.chunks))]
                  /\ UNCHANGED frames
             ELSE /\ runs' = [returned EXCEPT ![r].pc = "loop"]
                  /\ frames' = [frames EXCEPT
                                    ![Frame(r)].transcriptions =
                                        Append(@, ChunkSummary(loc.i, chunk, res.text)),
                                    ![Frame(r)].allSegments = @ \o res.segments,
                                    ![Frame(r)].totalText = AppendText(@, res.text),
                                    ![Frame(r)].i = @ + 1]
    /\ UNCHANGED nonPairVars

\* lines 167-181: every chunk of request r is transcribed
PairComplete(r) ==
    /\ runs[r].pc = "loop"
    /\ ~(Locals(r).i < Len(Locals(r).chunks))
    /\ runs' = [runs EXCEPT ![r].pc = "done",
                            ![r].result = ChunkedSuccess(Locals(r).totalText,
                                                         Locals(r).allSegments,
                                                         Locals(r).transcriptions,
                                                         Locals(r).chunkCheck)]
    /\ UNCHANGED frames
    /\ UNCHANGED nonPairVars

PairAnalyzes == \E r \in Requests : PairAnalyze(r)
PairTranscribesDirect == \E r \in Requests : PairTranscribeDirect(r)
PairDirectReturns == \E r \in Requests : PairDirectReturn(r)
PairChunks == \E r \in Requests : PairChunking(r)
PairExtracts == \E r \in Requests : PairExtracted(r)
PairCallsChunk == \E r \in Requests : PairCallChunk(r)
PairChunkReturns == \E r \in Requests : PairChunkReturn(r)
PairCompletes == \E r \in Requests : PairComplete(r)

----------------------------------------------------------------------------
(* AudioTranscriptionService.js (route): POST *)

Whitespace == {" ", "\t", "\n"}

\* a trim of the leading whitespace only
RECURSIVE TrimStart(_)
TrimStart(text) ==
    IF Len(text) > 0 /\ Head(text) \in Whitespace THEN TrimStart(Tail(text)) ELSE text

RECURSIVE TrimEnd(_)
TrimEnd(text) ==
    IF Len(text) > 0 /\ text[Len(text)] \in Whitespace
    THEN TrimEnd(SubSeq(text, 1, Len(text) - 1))
    ELSE text

\* String.prototype.trim
Trim(text) == TrimEnd(TrimStart(text))

\* the form of the request: unreadable, or its fields ("absent" when get() gives null)
ProxyForms ==
    {[readable |-> FALSE]}
    \cup [readable : {TRUE}, file : BOOLEAN, language : {"absent", "fr"},
          include_timestamps : {"absent", "true", "false"}]

ProxyRequests == [apiKey : BOOLEAN, form : ProxyForms]

\* segments as the provider returns them in the verbose format
ProviderSeg0 ==
    [id |-> 0, seek |-> 0, start |-> RatInt(0), end |-> Rat(3, 2), text |-> <<" ", "a">>]
ProviderSeg1 ==
    [id |-> 1, seek |-> 0, start |-> Rat(3, 2), end |-> RatInt(4),
     text |-> <<"\n", "b", " ", "c", " ", "\t">>]
ProviderSeg2 ==
    [id |-> 0, seek |-> 0, start |-> RatInt(0), end |-> RatInt(1), text |-> <<" ">>]

\* bodies of a 200 answer of the provider, as response.json() gives them; a body
\* that is not JSON makes response.json() reject
ProviderOkBodies ==
    {[parsed |-> FALSE]}
    \cup {[parsed |-> TRUE, json |-> j] :
            j \in {[text |-> <<"a">>],
                   [text |-> <<"a">>, language |-> "french"],
                   [text |-> <<"a">>, language |-> "french", duration |-> RatInt(4),
                    segments |-> <<ProviderSeg0, ProviderSeg1>>],
                   [text |-> <<"a">>, duration |-> RatInt(1),
                    segments |-> <<ProviderSeg2>>],
                   [text |-> <<>>, language |-> "french", duration |-> RatInt(0),
                    segments |-> <<>>]}}

\* bodies of an error answer of the provider
ProviderErrorBodies ==
    {[parsed |-> FALSE]}
    \cup {[parsed |-> TRUE, json |-> j] :
            j \in {[error |-> [message |-> "Invalid API Key", type |-> "invalid_request_error"]],
                   [error |-> [type |-> "server_error"]],
                   [detail |-> "Bad Gateway"]}}

\* line 309: formData.get("language") || "en"
FormLanguage(form) == IF form.language = "absent" THEN "en" ELSE form.language

\* line 310: formData.get("include_timestamps") === "true"
FormIncludeTimestamps(form) == form.include_timestamps = "true"

\* the verbose format whatever was asked
ResponseFormatVerbose(includeTimestamps) == "verbose_json"

\* line 326
ResponseFormat(includeTimestamps) == IF includeTimestamps THEN "verbose_json" ELSE "json"

\* lines 320-326
GroqFormData(form) ==
    [file |-> "file", model |-> "whisper-large-v3", language |-> FormLanguage(form),
     response_format |-> ResponseFormat(FormIncludeTimestamps(form))]

\* the status of an internal failure whatever the provider answered
ErrorStatusInternal(response) == 500

\* line 345: { status: response.status }
ErrorStatus(response) == response.status

\* line 338: response.json().catch(() => ({}))
ErrorData(body) == IF body.parsed THEN body.json ELSE <<>>

\* lines 341-344; a property that is undefined is left out of the JSON
ErrorResponseBody(errorData) ==
    [error |-> IF "error" \in DOMAIN errorData /\ "message" \in DOMAIN errorData.error
               THEN errorData.error.message
               ELSE "Failed to transcribe audio",
     details |-> errorData]

\* a segment passed on as the provider gave it
MapSegmentWhole(segment) == segment

\* lines 361-366
MapSegment(segment) ==
    [id |-> segment.id, start |-> segment.start, end |-> segment.end,
     text |-> Trim(segment.text)]

\* lines 352-369; a property that is undefined is left out of the JSON
ResponseData(groqResult, form) ==
    [success |-> TRUE, text |-> groqResult.text,
     language |-> IF "language" \in DOMAIN groqResult THEN groqResult.language
                  ELSE FormLanguage(form)]
    @@ (IF "duration" \in DOMAIN groqResult THEN [duration |-> groqResult.duration] ELSE <<>>)
    @@ (IF FormIncludeTimestamps(form) /\ "segments" \in DOMAIN groqResult
        THEN [segments |-> [k \in 1..Len(groqResult.segments) |->
                                MapSegment(groqResult.segments[k])]]
        ELSE <<>>)

\* errors thrown inside POST other than by the fetch: no cause, another message
FormDataError == [code |-> "none", fetchFailed |-> FALSE]
JsonError == [code |-> "none", fetchFailed |-> FALSE]

\* lines 376-383
CatchMessage(error) ==
    IF error.code = "ETIMEDOUT" THEN "Request timed out. Please try again."
    ELSE IF error.code = "ECONNRESET" THEN "Connection was reset. Please try again."
    ELSE IF error.fetchFailed
    THEN "Network error. Please check your connection and try again."
    ELSE "Internal server error"

\* lines 385-388
CatchResponse(error) ==
    [status |-> 500, body |-> [error |-> CatchMessage(error), message |-> "message"]]

ProxyInit ==
    /\ proxyPc = "start"
    /\ request \in ProxyRequests
    /\ bodyRead = FALSE
    /\ upstream = Undefined
    /\ upstreamBody = Undefined
    /\ proxyResponse = Undefined

ProxyIdle ==
    /\ proxyPc = "idle"
    /\ request = Undefined
    /\ bodyRead = FALSE
    /\ upstream = Undefined
    /\ upstreamBody = Undefined
    /\ proxyResponse = Undefined

\* lines 297-335: up to the call of fetchWithRetry
Post ==
    /\ proxyPc = "start"
    /\ IF ~request.apiKey
       THEN /\ proxyResponse' = [status |-> 500,
                                 body |-> [error |-> "GROQ_API_KEY is not configured"]]
            /\ proxyPc' = "done"
            /\ UNCHANGED <<bodyRead, upstream, fetchPc>>
       ELSE IF ~request.form.readable
       THEN /\ bodyRead' = TRUE
            /\ proxyResponse' = CatchResponse(FormDataError)
            /\ proxyPc' = "done"
            /\ UNCHANGED <<upstream, fetchPc>>
       ELSE IF ~request.form.file
       THEN /\ bodyRead' = TRUE
            /\ proxyResponse' = [status |-> 400,
                                 body |-> [error |-> "No audio file provided"]]
            /\ proxyPc' = "done"
            /\ UNCHANGED <<upstream, fetchPc>>
       ELSE /\ bodyRead' = TRUE
            /\ upstream' = GroqFormData(request.form)
            /\ fetchPc' = "start"
            /\ proxyPc' = "awaitFetch"
            /\ UNCHANGED proxyResponse
    /\ UNCHANGED <<request, upstreamBody>>
    /\ UNCHANGED <<attempt, attempts, timerDelay, elapsed, sleeps, fetchOutcome>>
    /\ UNCHANGED <<splitVars, orchVars, singleVars, classifyVars, pairVars, prepareVars,
                   formatVars, wavVars, uiVars>>

\* lines 372-388: fetchWithRetry threw
PostCatch ==
    /\ proxyPc = "awaitFetch"
    /\ fetchPc = "threw"
    /\ proxyResponse' = CatchResponse(fetchOutcome.thrown)
    /\ proxyPc' = "done"
    /\ UNCHANGED <<request, bodyRead, upstream, upstreamBody>>
    /\ UNCHANGED nonProxyVars

\* lines 337-347: the provider answered with an error status
PostUpstreamError ==
    /\ proxyPc = "awaitFetch"
    /\ fetchPc = "returned"
    /\ ~fetchOutcome.returned.ok
    /\ \E body \in ProviderErrorBodies :
          /\ upstreamBody' = body
          /\ proxyResponse' = [status |-> ErrorStatus(fetchOutcome.returned),
                               body |-> ErrorResponseBody(ErrorData(body))]
    /\ proxyPc' = "done"
    /\ UNCHANGED <<request, bodyRead, upstream>>
    /\ UNCHANGED nonProxyVars

\* lines 349-371: the provider answered 200
PostSuccess ==
    /\ proxyPc = "awaitFetch"
    /\ fetchPc = "returned"
    /\ fetchOutcome.returned.ok
    /\ \E body \in ProviderOkBodies :
          /\ upstreamBody' = body
          /\ proxyResponse' = IF body.parsed
                              THEN [status |-> 200,
                                    body |-> ResponseData(body.json, request.form)]
                              ELSE CatchResponse(JsonError)
    /\ proxyPc' = "done"
    /\ UNCHANGED <<request, bodyRead, upstream>>
    /\ UNCHANGED nonProxyVars

----------------------------------------------------------------------------
(* AudioTranscriptionService.js: validation and preparation *)

\* formats as sequences of characters
SUPPORTED_FORMATS ==
    << <<"m", "p", "3">>, <<"m", "p", "4">>, <<"m", "p", "e", "g">>,
       <<"m", "p", "g", "a">>, <<"m", "4", "a">>, <<"w", "a", "v">>,
       <<"w", "e", "b", "m">> >>

CONVERTIBLE_FORMATS ==
    << <<"o", "g", "g">>, <<"f", "l", "a", "c">>, <<"a", "a", "c">>,
       <<"w", "m", "a">>, <<"a", "i", "f", "f">> >>

MAX_FILE_SIZE_MB == 25
MAX_FILE_SIZE_BYTES == MAX_FILE_SIZE_MB * 1024 * 1024

\* line 21: CHUNK_DURATION_SECONDS of this service
VALIDATION_CHUNK_DURATION_SECONDS == 600

Includes(list, x) == \E k \in 1..Len(list) : list[k] = x

LowerOf ==
    ("A" :> "a") @@ ("B" :> "b") @@ ("C" :> "c") @@ ("D" :> "d") @@ ("E" :> "e")
    @@ ("F" :> "f") @@ ("G" :> "g") @@ ("H" :> "h") @@ ("I" :> "i") @@ ("J" :> "j")
    @@ ("K" :> "k") @@ ("L" :> "l") @@ ("M" :> "m") @@ ("N" :> "n") @@ ("O" :> "o")
    @@ ("P" :> "p") @@ ("Q" :> "q") @@ ("R" :> "r") @@ ("S" :> "s") @@ ("T" :> "t")
    @@ ("U" :> "u") @@ ("V" :> "v") @@ ("W" :> "w") @@ ("X" :> "x") @@ ("Y" :> "y")
    @@ ("Z" :> "z")

\* a lower-casing that leaves every character as it is
ToLowerCaseNone(text) == text

\* String.prototype.toLowerCase
ToLowerCase(text) ==
    [k \in 1..Len(text) |-> IF text[k] \in DOMAIN LowerOf THEN LowerOf[text[k]] ELSE text[k]]

\* filename.split('.').pop(): what follows the last dot, the whole name without a dot
LastPart(filename) ==
    LET dots == {k \in 1..Len(filename) : filename[k] = "."}
    IN IF dots = {} THEN filename
       ELSE LET last == CHOOSE k \in dots : \A j \in dots : j <= k
            IN SubSeq(filename, last + 1, Len(filename))

\* lines 28-65
validateAudioFormat(filename) ==
    LET extension == ToLowerCase(LastPart(filename))
    IN IF extension = <<>>
       THEN [valid |-> FALSE,
             error |-> [template |-> "Unable to determine file format"],
             format |-> Null, needsConversion |-> FALSE]
       ELSE IF Includes(SUPPORTED_FORMATS, extension)
       THEN [valid |-> TRUE, format |-> extension, needsConversion |-> FALSE,
             error |-> Null]
       ELSE IF Includes(CONVERTIBLE_FORMATS, extension)
       THEN [valid |-> TRUE, format |-> extension, needsConversion |-> TRUE,
             targetFormat |-> <<"m", "p", "3">>, error |-> Null]
       ELSE [valid |-> FALSE,
             error |-> [template |-> "Unsupported audio format: ${extension}. Supported formats: ${formats}",
                        extension |-> extension,
                        formats |-> SUPPORTED_FORMATS \o CONVERTIBLE_FORMATS],
             format |-> extension, needsConversion |-> FALSE]

\* lines 72-86
validateFileSize(fileSize) ==
    IF fileSize > MAX_FILE_SIZE_BYTES
    THEN [valid |-> FALSE, needsChunking |-> TRUE,
          error |-> [template |-> "File size exceeds maximum limit", size |-> fileSize]]
    ELSE [valid |-> TRUE, needsChunking |-> FALSE, error |-> Null]

\* formatValidation.targetFormat || null
TargetFormat(formatValidation) ==
    IF "targetFormat" \in DOMAIN formatValidation THEN formatValidation.targetFormat ELSE Null

\* lines 93-122; sizeInMB and mimeType are left out
processAudioFile(f) ==
    LET formatValidation == validateAudioFormat(f.name)
        sizeValidation == validateFileSize(f.size)
    IN IF ~formatValidation.valid
       THEN [success |-> FALSE, error |-> formatValidation.error, file |-> Null]
       ELSE [success |-> TRUE,
             file |-> [name |-> f.name, size |-> f.size,
                       format |-> formatValidation.format],
             requirements |-> [needsConversion |-> formatValidation.needsConversion,
                               targetFormat |-> TargetFormat(formatValidation),
                               needsChunking |-> sizeValidation.needsChunking],
             error |-> Null]

\* lines 129-151
calculateChunks(durationSeconds) ==
    LET chunkDuration == RatInt(VALIDATION_CHUNK_DURATION_SECONDS)
        numberOfChunks == RatCeil(RatDiv(durationSeconds, chunkDuration))
        chunk(k) ==
            LET startTime == RatMul(RatInt(k), chunkDuration)
                endTime == RatMin(RatMul(RatInt(k + 1), chunkDuration), durationSeconds)
            IN [index |-> k, startTime |-> startTime, endTime |-> endTime,
                duration |-> RatSub(endTime, startTime)]
    IN [totalDuration |-> durationSeconds,
        chunkDuration |-> VALIDATION_CHUNK_DURATION_SECONDS,
        numberOfChunks |-> numberOfChunks,
        chunks |-> [k \in 1..numberOfChunks |-> chunk(k - 1)]]

\* a boolean as a value of JavaScript, next to null and numbers
JsBoolean(b) == [boolean |-> b]

\* a number is truthy unless it is 0 (NaN is outside the model)
Truthy(number) == number.n # 0

\* Math.round of a number that is not negative
RatRound(a) == RatTrunc(RatAdd(a, Rat(1, 2)))

\* the duration limit of the chunking service
NeedsChunkingByDurationAt300(duration) ==
    IF ~Truthy(duration) THEN duration
    ELSE JsBoolean(RatLess(RatInt(CHUNK_DURATION_SECONDS), duration))

\* line 224: duration && duration > CHUNK_DURATION_SECONDS
NeedsChunkingByDuration(duration) ==
    IF ~Truthy(duration) THEN duration
    ELSE JsBoolean(RatLess(RatInt(VALIDATION_CHUNK_DURATION_SECONDS), duration))

\* lines 209-228, after the probe; duration is null when the probe failed;
\* sizeInMB, mimeType and durationFormatted are left out
Prepared(f, duration) ==
    LET formatValidation == validateAudioFormat(f.name)
        sizeValidation == validateFileSize(f.size)
        over == duration # Null
                /\ RatLess(RatInt(VALIDATION_CHUNK_DURATION_SECONDS), duration)
    IN [ready |-> TRUE,
        file |-> [name |-> f.name, size |-> f.size,
                  format |-> formatValidation.format,
                  duration |-> IF duration # Null /\ Truthy(duration)
                               THEN RatRound(duration) ELSE Null],
        processing |->
            [needsConversion |-> formatValidation.needsConversion,
             targetFormat |-> TargetFormat(formatValidation),
             needsChunking |-> IF sizeValidation.needsChunking THEN JsBoolean(TRUE)
                               ELSE IF duration = Null THEN Null
                               ELSE NeedsChunkingByDuration(duration),
             chunkInfo |-> IF duration # Null /\ (sizeValidation.needsChunking \/ over)
                           THEN calculateChunks(duration) ELSE Null],
        error |-> Null]

\* names of the files: listed and unlisted extensions in either case, several
\* dots, no dot, nothing after the dot, the empty name
FileNames ==
    {<<"a", ".", "m", "p", "3">>, <<"a", ".", "M", "P", "3">>, <<"a", ".", "W", "a", "v">>,
     <<"a", ".", "w", "e", "b", "m">>, <<"a", ".", "b", ".", "m", "4", "a">>,
     <<"a", ".", "o", "g", "g">>, <<"a", ".", "F", "L", "A", "C">>,
     <<"a", ".", "t", "x", "t">>, <<"a", ".", "m", "p", "3", ".", "e", "x", "e">>,
     <<"a", ".", "M", "P", "5">>, <<"m", "p", "3">>, <<"a", "b">>, <<"a", ".">>, <<>>}

\* durations in seconds around the limits of the two services, and an empty file
PrepareDurations ==
    {0} \cup {(CHUNK_DURATION_SECONDS \div 2) * k + e : k \in {2, 4}, e \in {-1, 0, 1}}

PrepareFiles ==
    [name : FileNames,
     size : {MAX_FILE_SIZE_BYTES - 1, MAX_FILE_SIZE_BYTES, MAX_FILE_SIZE_BYTES + 1},
     length : PrepareDurations, sampleRate : {1}, probeOk : BOOLEAN]

PrepareInit ==
    /\ preparePc = "start"
    /\ prepareIn \in PrepareFiles
    /\ probes = 0
    /\ prepareOut = Undefined
    /\ processOut = Undefined

PrepareIdle ==
    /\ preparePc = "idle"
    /\ prepareIn = Undefined
    /\ probes = 0
    /\ prepareOut = Undefined
    /\ processOut = Undefined

\* lines 182-200: validate the format and the size, then call getAudioDuration
PrepareForTranscriptionCall ==
    /\ preparePc = "start"
    /\ LET formatValidation == validateAudioFormat(prepareIn.name)
       IN IF ~formatValidation.valid
          THEN /\ prepareOut' = [ready |-> FALSE, error |-> formatValidation.error]
               /\ preparePc' = "done"
               /\ UNCHANGED probes
          ELSE /\ probes' = probes + 1
               /\ preparePc' = "probing"
               /\ UNCHANGED prepareOut
    /\ UNCHANGED <<prepareIn, processOut>>
    /\ UNCHANGED nonPrepareVars

\* lines 200-228: the probe resolves or rejects
PrepareForTranscriptionProbed ==
    /\ preparePc = "probing"
    /\ prepareOut' = Prepared(prepareIn,
                              IF prepareIn.probeOk THEN ProbedDuration(prepareIn) ELSE Null)
    /\ preparePc' = "done"
    /\ UNCHANGED <<prepareIn, probes, processOut>>
    /\ UNCHANGED nonPrepareVars

\* lines 93-122: processAudioFile on the same file
ProcessAudioFileCall ==
    /\ preparePc # "idle"
    /\ processOut = Undefined
    /\ processOut' = processAudioFile(prepareIn)
    /\ UNCHANGED <<preparePc, prepareIn, probes, prepareOut>>
    /\ UNCHANGED nonPrepareVars

----------------------------------------------------------------------------
(* GroqTranscriptionService.js: formatTimestamp *)

DigitChars == <<"0", "1", "2", "3", "4", "5", "6", "7", "8", "9">>

\* Number.prototype.toString of an integer that is not negative
RECURSIVE NumberToString(_)
NumberToString(n) ==
    IF n < 10 THEN <<DigitChars[n + 1]>>
    ELSE Append(NumberToString(n \div 10), DigitChars[(n % 10) + 1])

\* a padding that adds nothing
PadStartNone(text, targetLength, fill) == text

\* String.prototype.padStart with a fill of one character
RECURSIVE PadStart(_, _, _)
PadStart(text, targetLength, fill) ==
    IF Len(text) >= targetLength THEN text
    ELSE PadStart(<<fill>> \o text, targetLength, fill)

\* Math.floor of a number that is not negative
RatFloor(a) == a.n \div a.d

\* seconds % m for seconds that are not negative
RatMod(a, m) == RatSub(a, RatInt(m * RatFloor(RatDiv(a, RatInt(m)))))

\* field.toString().padStart(2, '0')
Field(n) == PadStart(NumberToString(n), 2, "0")

\* lines 197-206
formatTimestamp(seconds) ==
    LET hrs == RatFloor(RatDiv(seconds, RatInt(3600)))
        mins == RatFloor(RatDiv(RatMod(seconds, 3600), RatInt(60)))
        secs == RatFloor(RatMod(seconds, 60))
    IN IF hrs > 0
       THEN Field(hrs) \o <<":">> \o Field(mins) \o <<":">> \o Field(secs)
       ELSE Field(mins) \o <<":">> \o Field(secs)

\* times in seconds: every combination of these hours, minutes and seconds,
\* and the same with half a second more
TimestampHours == {0, 1, 9, 10, 23, 100}
TimestampMinutes == {0, 1, 9, 10, 59}
TimestampSeconds == {0, 1, 5, 9, 10, 59}

TimestampInputs ==
    {Rat(2 * (h * 3600 + m * 60 + s) + half, 2) :
        h \in TimestampHours, m \in TimestampMinutes, s \in TimestampSeconds,
        half \in {0, 1}}

FormatInit ==
    /\ formatPc = "start"
    /\ formatIn \in TimestampInputs
    /\ formatOut = Undefined

FormatIdle ==
    /\ formatPc = "idle"
    /\ formatIn = Undefined
    /\ formatOut = Undefined

\* one call
FormatTimestampCall ==
    /\ formatPc = "start"
    /\ formatOut' = formatTimestamp(formatIn)
    /\ formatPc' = "done"
    /\ UNCHANGED formatIn
    /\ UNCHANGED nonFormatVars

----------------------------------------------------------------------------
(* AudioChunkingService.js: audioBufferToWav *)

\* mono and stereo buffers of up to MaxWavFrames frames
WavChannelCounts == {1, 2}
MaxWavFrames == 2

\* sample values of the channel data, inside and outside [-1, 1]
SampleValues == {Rat(-3, 2), RatInt(-1), Rat(-1, 2), Rat(1, 3), RatInt(1), Rat(3, 2)}

\* the AudioBuffers handed to the encoder
WavBuffers ==
    UNION {UNION {[numberOfChannels : {c}, sampleRate : {MaxRate}, length : {n},
                   channelData : [1..c -> [1..n -> SampleValues]]]
                  : n \in 0..MaxWavFrames}
           : c \in WavChannelCounts}

RatMax(a, b) == IF RatLess(a, b) THEN b ELSE a

\* line 130: Math.max(-1, Math.min(1, sample)), taken without the clamp
ClampNone(sample) == sample

\* line 130: Math.max(-1, Math.min(1, sample))
Clamp(sample) == RatMax(RatInt(-1), RatMin(RatInt(1), sample))

\* line 130: the clamped sample times 0x7FFF
IntSample(sample) == RatMul(Clamp(sample), RatInt(32767))

\* DataView.setInt16: the number is truncated toward zero and taken modulo 2^16 into
\* the signed 16-bit range
ToInt16(number) ==
    LET int16bit == RatTrunc(number) % 65536
    IN IF int16bit >= 32768 THEN int16bit - 65536 ELSE int16bit

\* lines 94-103
BytesPerSample == 16 \div 8
BlockAlign(buffer) == buffer.numberOfChannels * BytesPerSample
DataLength(buffer) == buffer.length * BlockAlign(buffer)
BufferLength(buffer) == 44 + DataLength(buffer)

\* lines 108-121: the header fields, by byte position (values stay below 2^32)
WavHeader(buffer) ==
    [riff |-> "RIFF", riffSize |-> 36 + DataLength(buffer), wave |-> "WAVE",
     fmt |-> "fmt ", fmtSize |-> 16, format |-> 1,
     numberOfChannels |-> buffer.numberOfChannels, sampleRate |-> buffer.sampleRate,
     byteRate |-> buffer.sampleRate * BlockAlign(buffer),
     blockAlign |-> BlockAlign(buffer), bitDepth |-> 16,
     data |-> "data", dataLength |-> DataLength(buffer)]

\* view.setInt16(offset, intSample, true)
SetInt16(view, at, number) ==
    [view EXCEPT !.samples = [o \in DOMAIN view.samples \cup {at} |->
                                  IF o = at THEN ToInt16(number) ELSE view.samples[o]]]

\* line 135
WavBlob(view) == [type |-> "audio/wav", size |-> view.byteLength, view |-> view]

WavInit ==
    /\ wavPc = "start"
    /\ wavBuffer \in WavBuffers
    /\ wavView = Undefined
    /\ wavOffset = 0
    /\ wavI = 0
    /\ wavChannel = 0
    /\ wavOut = Undefined

WavIdle ==
    /\ wavPc = "idle"
    /\ wavBuffer = Undefined
    /\ wavView = Undefined
    /\ wavOffset = 0
    /\ wavI = 0
    /\ wavChannel = 0
    /\ wavOut = Undefined

\* lines 94-125: the view is allocated, the header written, the loops start
WavBegin ==
    /\ wavPc = "start"
    /\ wavView' = [byteLength |-> BufferLength(wavBuffer), header |-> WavHeader(wavBuffer),
                   samples |-> <<>>]
    /\ wavOffset' = 44
    /\ wavI' = 0
    /\ wavChannel' = 0
    /\ wavPc' = "loop"
    /\ UNCHANGED <<wavBuffer, wavOut>>
    /\ UNCHANGED nonWavVars

\* lines 126-133: one pass of the inner loop body, then the loop counters
WavWriteSample ==
    /\ wavPc = "loop"
    /\ wavI < wavBuffer.length
    /\ wavChannel < wavBuffer.numberOfChannels
    /\ LET sample == wavBuffer.channelData[wavChannel + 1][wavI + 1]
       IN wavView' = SetInt16(wavView, wavOffset, IntSample(sample))
    /\ wavOffset' = wavOffset + 2
    /\ IF wavChannel + 1 < wavBuffer.numberOfChannels
       THEN wavChannel' = wavChannel + 1 /\ wavI' = wavI
       ELSE wavChannel' = 0 /\ wavI' = wavI + 1
    /\ UNCHANGED <<wavPc, wavBuffer, wavOut>>
    /\ UNCHANGED nonWavVars

\* line 135: the outer loop is over
WavReturn ==
    /\ wavPc = "loop"
    /\ ~(wavI < wavBuffer.length)
    /\ wavOut' = WavBlob(wavView)
    /\ wavPc' = "returned"
    /\ UNCHANGED <<wavBuffer, wavView, wavOffset, wavI, wavChannel>>
    /\ UNCHANGED nonWavVars

----------------------------------------------------------------------------
(* The page (Home): file selection, removal and transcription *)

\* the files the user can pick: two that prepareForTranscription accepts, one it
\* rejects
UiFiles == {[name |-> "a", ready |-> TRUE], [name |-> "b", ready |-> TRUE],
            [name |-> "x", ready |-> FALSE]}

\* what prepareForTranscription resolves with for a picked file
UiPrepared(f) ==
    IF f.ready
    THEN [ready |-> TRUE, file |-> [name |-> f.name], error |-> Null]
    ELSE [ready |-> FALSE, error |-> "Unsupported file format"]

\* the progress notes transcribeAudio hands to onProgress
UiProgressNotes ==
    {[message |-> "Analyzing audio file..."],
     [message |-> "Transcribing audio...", progress |-> 0],
     [message |-> "Transcribing chunk 1 of 2...", progress |-> 0,
      currentChunk |-> 1, totalChunks |-> 2],
     [message |-> "Transcription complete!", progress |-> 100]}

\* what transcribeAudio resolves with for a file: a success, a failure, a failure
\* with the text of the chunks transcribed before it
UiResults(f) ==
    {[success |-> TRUE, text |-> <<f.name>>],
     [success |-> FALSE, error |-> "Failed to fetch"],
     [success |-> FALSE, error |-> "Failed to transcribe chunk 2",
      partialText |-> <<f.name>>, completedChunks |-> 1, totalChunks |-> 2]}

UiInit ==
    /\ uiFile = Null
    /\ fileInfo = Null
    /\ uiError = Null
    /\ isProcessing = FALSE
    /\ isTranscribing = FALSE
    /\ transcription = Null
    /\ transcriptionStatus = ""
    /\ transcriptionProgress = Null
    /\ selecting = Null
    /\ inflight = Null
    /\ removedSince = FALSE

UiIdle == UiInit

\* lines 20-26: handleFileSelect up to the await of prepareForTranscription
HandleFileSelect ==
    /\ selecting = Null
    /\ \E selectedFile \in UiFiles : selecting' = selectedFile
    /\ uiError' = Null
    /\ isProcessing' = TRUE
    /\ UNCHANGED <<uiFile, fileInfo, isTranscribing, transcription, transcriptionStatus,
                   transcriptionProgress, inflight, removedSince>>
    /\ UNCHANGED nonUiVars

\* lines 26-43: prepareForTranscription resolved
HandleFileSelectResolved ==
    /\ selecting # Null
    /\ LET prepared == UiPrepared(selecting)
       IN IF ~prepared.ready
          THEN uiError' = prepared.error /\ uiFile' = Null /\ fileInfo' = Null
          ELSE uiFile' = selecting /\ fileInfo' = prepared /\ UNCHANGED uiError
    /\ isProcessing' = FALSE
    /\ selecting' = Null
    /\ UNCHANGED <<isTranscribing, transcription, transcriptionStatus,
                   transcriptionProgress, inflight, removedSince>>
    /\ UNCHANGED nonUiVars

\* lines 72-82, behind the button of the file card (lines 212, 241-246)
HandleRemoveFile ==
    /\ fileInfo # Null
    /\ uiFile' = Null
    /\ fileInfo' = Null
    /\ uiError' = Null
    /\ transcription' = Null
    /\ transcriptionStatus' = ""
    /\ transcriptionProgress' = Null
    /\ removedSince' = TRUE
    /\ UNCHANGED <<isProcessing, isTranscribing, selecting, inflight>>
    /\ UNCHANGED nonUiVars

\* lines 84-92, behind the button of the file card, disabled while transcribing
\* (lines 212, 299-301): up to the await of transcribeAudio(file, ...)
HandleTranscribe ==
    /\ fileInfo # Null
    /\ ~isTranscribing
    /\ uiFile # Null
    /\ isTranscribing' = TRUE
    /\ uiError' = Null
    /\ transcription' = Null
    /\ transcriptionProgress' = Null
    /\ inflight' = [file |-> uiFile]
    /\ removedSince' = FALSE
    /\ UNCHANGED <<uiFile, fileInfo, isProcessing, transcriptionStatus, selecting>>
    /\ UNCHANGED nonUiVars

\* lines 94-105: the onProgress callback of the request in flight
OnProgress ==
    /\ inflight # Null
    /\ \E note \in UiProgressNotes :
          /\ transcriptionStatus' = note.message
          /\ transcriptionProgress' =
                 IF "currentChunk" \in DOMAIN note /\ note.currentChunk # 0
                 THEN [current |-> note.currentChunk, total |-> note.totalChunks]
                 ELSE IF "progress" \in DOMAIN note THEN note.progress
                 ELSE transcriptionProgress
    /\ UNCHANGED <<uiFile, fileInfo, uiError, isProcessing, isTranscribing, transcription,
                   selecting, inflight, removedSince>>
    /\ UNCHANGED nonUiVars

\* lines 92-123: transcribeAudio resolved
HandleTranscribeResolved ==
    /\ inflight # Null
    /\ \E r \in UiResults(inflight.file) :
          /\ isTranscribing' = FALSE
          /\ IF r.success
             THEN transcription' = r /\ UNCHANGED uiError
             ELSE /\ uiError' = r.error
                  /\ transcription' =
                         IF "partialText" \in DOMAIN r /\ r.partialText # <<>>
                         THEN [text |-> r.partialText, partial |-> TRUE,
                               completedChunks |-> r.completedChunks,
                               totalChunks |-> r.totalChunks]
                         ELSE transcription
    /\ inflight' = Null
    /\ UNCHANGED <<uiFile, fileInfo, isProcessing, transcriptionStatus,
                   transcriptionProgress, selecting, removedSince>>
    /\ UNCHANGED nonUiVars

----------------------------------------------------------------------------
(* Specifications *)

\* one call of splitAudioIntoChunks
SplitStart == SplitInit /\ OrchIdle /\ SingleIdle /\ RetryIdle /\ ClassifyIdle
    /\ PairIdle /\ ProxyIdle /\ PrepareIdle /\ FormatIdle /\ WavIdle /\ UiIdle

SplitNext == SplitBegin \/ SplitIterate \/ SplitFinish

SpecSplit == SplitStart /\ [][SplitNext]_vars

\* one request of transcribeAudio
Init == OrchInit /\ SplitIdle /\ SingleIdle /\ RetryIdle /\ ClassifyIdle /\ PairIdle
    /\ ProxyIdle /\ PrepareIdle /\ FormatIdle /\ WavIdle /\ UiIdle

Next ==
    \/ Analyze
    \/ TranscribeDirect
    \/ DirectReturn
    \/ Chunking
    \/ Extracted
    \/ CallChunk
    \/ ChunkReturn
    \/ Complete

Spec == Init /\ [][Next]_vars

\* one call of transcribeSingleAudio
SingleStart == SingleInit /\ SplitIdle /\ OrchIdle /\ RetryIdle /\ ClassifyIdle
    /\ PairIdle /\ ProxyIdle /\ PrepareIdle /\ FormatIdle /\ WavIdle /\ UiIdle

SingleNext == SingleCall

SpecSingle == SingleStart /\ [][SingleNext]_vars

\* one call of fetchWithRetry
RetryStart == RetryInit /\ SplitIdle /\ OrchIdle /\ SingleIdle /\ ClassifyIdle
    /\ PairIdle /\ ProxyIdle /\ PrepareIdle /\ FormatIdle /\ WavIdle /\ UiIdle

RetryNext == FetchWithRetryCall \/ FetchResolves \/ FetchRejects \/ Tick \/ Wake

SpecRetry == RetryStart /\ [][RetryNext]_vars

\* checkIfNeedsChunking on its own, over sizes, durations and limits
ClassifyStart == ClassifyInit /\ SplitIdle /\ OrchIdle /\ SingleIdle /\ RetryIdle
    /\ PairIdle /\ ProxyIdle /\ PrepareIdle /\ FormatIdle /\ WavIdle /\ UiIdle

ClassifyNext == ClassifyCall

SpecClassify == ClassifyStart /\ [][ClassifyNext]_vars

\* two requests interleaved at their suspension points
PairStart == PairInit /\ SplitIdle /\ OrchIdle /\ SingleIdle /\ RetryIdle /\ ClassifyIdle
    /\ ProxyIdle /\ PrepareIdle /\ FormatIdle /\ WavIdle /\ UiIdle

PairNext ==
    \/ PairAnalyzes
    \/ PairTranscribesDirect
    \/ PairDirectReturns
    \/ PairChunks
    \/ PairExtracts
    \/ PairCallsChunk
    \/ PairChunkReturns
    \/ PairCompletes

SpecPair == PairStart /\ [][PairNext]_vars

\* one request to the route, with the fetchWithRetry call it makes
ProxyStart ==
    /\ ProxyInit /\ SplitIdle /\ OrchIdle /\ SingleIdle /\ RetryIdle /\ ClassifyIdle
    /\ PairIdle /\ PrepareIdle /\ FormatIdle /\ WavIdle /\ UiIdle

ProxyNext ==
    \/ Post
    \/ FetchWithRetryCall
    \/ FetchResolves
    \/ FetchRejects
    \/ Tick
    \/ Wake
    \/ PostCatch
    \/ PostUpstreamError
    \/ PostSuccess

SpecProxy == ProxyStart /\ [][ProxyNext]_vars

\* one file given to prepareForTranscription and to processAudioFile
PrepareStart ==
    /\ PrepareInit /\ SplitIdle /\ OrchIdle /\ SingleIdle /\ RetryIdle /\ ClassifyIdle
    /\ PairIdle /\ ProxyIdle /\ FormatIdle /\ WavIdle /\ UiIdle

PrepareNext ==
    \/ PrepareForTranscriptionCall
    \/ PrepareForTranscriptionProbed
    \/ ProcessAudioFileCall

SpecPrepare == PrepareStart /\ [][PrepareNext]_vars

\* one call of formatTimestamp
FormatStart ==
    /\ FormatInit /\ SplitIdle /\ OrchIdle /\ SingleIdle /\ RetryIdle /\ ClassifyIdle
    /\ PairIdle /\ ProxyIdle /\ PrepareIdle /\ WavIdle /\ UiIdle

FormatNext == FormatTimestampCall

SpecFormat == FormatStart /\ [][FormatNext]_vars

\* one call of audioBufferToWav
WavStart ==
    /\ WavInit /\ SplitIdle /\ OrchIdle /\ SingleIdle /\ RetryIdle /\ ClassifyIdle
    /\ PairIdle /\ ProxyIdle /\ PrepareIdle /\ FormatIdle /\ UiIdle

WavNext == WavBegin \/ WavWriteSample \/ WavReturn

SpecWav == WavStart /\ [][WavNext]_vars

\* the page, from its first render on
UiStart ==
    /\ UiInit /\ SplitIdle /\ OrchIdle /\ SingleIdle /\ RetryIdle /\ ClassifyIdle
    /\ PairIdle /\ ProxyIdle /\ PrepareIdle /\ FormatIdle /\ WavIdle

UiNext ==
    \/ HandleFileSelect
    \/ HandleFileSelectResolved
    \/ HandleRemoveFile
    \/ HandleTranscribe
    \/ OnProgress
    \/ HandleTranscribeResolved

SpecUi == UiStart /\ [][UiNext]_vars

----------------------------------------------------------------------------
(* Claims about splitAudioIntoChunks, checked under SpecSplit *)

\* the call took the splitting path and returned
SplitReturnedMulti ==
    /\ splitPc = "returned"
    /\ splitIn.chunkDurationSeconds.n > 0
    /\ ~FitsOneChunk(splitIn, splitIn.chunkDurationSeconds)

\* samples spanned by a descriptor, as the fraction num/den:
\* (endTime - startTime) * sampleRate
SpanNum(c) == (c.endTime.n * c.startTime.d - c.startTime.n * c.endTime.d) * splitIn.sampleRate
SpanDen(c) == c.endTime.d * c.startTime.d

\* C1: when a buffer longer than a positive chunk duration is split, the returned
\* chunks cover the file exactly once: chunk 0 starts at time 0, every index is
\* the chunk's position, each chunk starts where the previous one ends, every
\* chunk but the last spans samplesPerChunk samples, the last spans between 1
\* and samplesPerChunk samples, and the last ends at totalSamples / sampleRate.
C1_ChunksCoverFileOnce ==
    SplitReturnedMulti =>
        LET n == Len(splitChunks)
            cd == splitIn.chunkDurationSeconds
            spcNum == cd.n * splitIn.sampleRate
            spcDen == cd.d
        IN /\ n >= 1
           /\ splitChunks[1].startTime.n = 0
           /\ \A k \in 1..n : splitChunks[k].index = k - 1
           /\ \A k \in 2..n : splitChunks[k].startTime = splitChunks[k - 1].endTime
           /\ \A k \in 1..(n - 1) :
                  SpanNum(splitChunks[k]) * spcDen = spcNum * SpanDen(splitChunks[k])
           /\ SpanNum(splitChunks[n]) >= SpanDen(splitChunks[n])
           /\ SpanNum(splitChunks[n]) * spcDen <= spcNum * SpanDen(splitChunks[n])
           /\ splitChunks[n].endTime.n * splitIn.sampleRate
                  = splitIn.length * splitChunks[n].endTime.d

\* a split into at least three chunks whose last chunk is shorter than the others
C1_Witness ==
    /\ SplitReturnedMulti
    /\ Len(splitChunks) >= 3
    /\ SpanNum(splitChunks[Len(splitChunks)]) * splitIn.chunkDurationSeconds.d
           < splitIn.chunkDurationSeconds.n * splitIn.sampleRate
               * SpanDen(splitChunks[Len(splitChunks)])

----------------------------------------------------------------------------
(* Claims about transcribeAudio, checked under Spec *)

\* the calls made for chunks (the single call of an unchunked file has chunk -1)
IsChunkCall(k) == calls[k].chunk >= 0

\* C2: chunks are transcribed strictly in index order and one at a time: at most
\* one call is in flight, it is the latest one, the k-th call of a chunked
\* request is the call for chunk k-1, and a call is only ever followed by
\* another when it has returned successfully.
C2_SequentialInOrder ==
    /\ Cardinality({k \in 1..Len(calls) : calls[k].status = "pending"}) <= 1
    /\ \A k \in 1..Len(calls) :
           /\ calls[k].status = "pending" => k = Len(calls)
           /\ IsChunkCall(k) => calls[k].chunk = k - 1
           /\ k < Len(calls) => calls[k].status = "ok"
           /\ ~IsChunkCall(k) => Len(calls) = 1

\* the third chunk's call is in flight after two chunks were transcribed
C2_Witness ==
    /\ Len(calls) = 3
    /\ calls[3].status = "pending"
    /\ calls[3].chunk = 2
    /\ calls[1].status = "ok" /\ calls[2].status = "ok"

\* the text of the first m chunks, from what the calls returned: joined by one
\* space, the space left out while nothing is accumulated
RECURSIVE JoinedText(_)
JoinedText(m) ==
    IF m = 0
    THEN <<>>
    ELSE LET before == JoinedText(m - 1)
             text == calls[m].response.body.text
         IN IF before = <<>> THEN text ELSE before \o <<" ">> \o text

\* a provider segment moved by an offset on the time line
MovedBy(seg, offset) ==
    [id |-> seg.id,
     start |-> Rat(seg.start.n * offset.d + offset.n * seg.start.d, seg.start.d * offset.d),
     end |-> Rat(seg.end.n * offset.d + offset.n * seg.end.d, seg.end.d * offset.d),
     text |-> seg.text]

\* the segments the provider returned for the k-th call
ProviderSegments(k) ==
    IF "segments" \in DOMAIN calls[k].response.body
    THEN calls[k].response.body.segments
    ELSE <<>>

\* the segments of the first m chunks on the time line of the file, in order
RECURSIVE MergedSegments(_)
MergedSegments(m) ==
    IF m = 0
    THEN <<>>
    ELSE MergedSegments(m - 1)
         \o [j \in 1..Len(ProviderSegments(m)) |->
                 MovedBy(ProviderSegments(m)[j], chunks[m].startTime)]

\* the error of a failed call, as the client reports it
ErrorOfCall(k) ==
    IF calls[k].response.kind \in {"threw", "unparseable"}
    THEN calls[k].response.message
    ELSE IF "error" \in DOMAIN calls[k].response.body
    THEN calls[k].response.body.error
    ELSE "Failed to transcribe audio"

\* C3: when the call for chunk k fails, no later call is made and the request
\* returns success = false with completedChunks = k, totalChunks = the number of
\* chunks, partialText = the text of chunks 0..k-1, segments = the reconciled
\* segments of chunks 0..k-1, and an error naming chunk k and carrying its
\* error; a failure of the first chunk gives 0 completed chunks and empty text,
\* a failure of chunk 2 of 3 gives 1 of 3 and the text of chunk 1.
C3_PartialFailure ==
    \A k \in 1..Len(calls) :
        (IsChunkCall(k) /\ calls[k].status = "failed") =>
            /\ k = Len(calls)
            /\ pc = "done"
            /\ result.success = FALSE
            /\ result.completedChunks = k - 1
            /\ result.completedChunks =
                   Cardinality({j \in 1..Len(calls) : calls[j].status = "ok"})
            /\ result.totalChunks = Len(chunks)
            /\ result.partialText = JoinedText(k - 1)
            /\ result.segments = MergedSegments(k - 1)
            /\ result.error.chunk = calls[k].chunk + 1
            /\ result.error.error = ErrorOfCall(k)
            /\ k = 1 => (result.completedChunks = 0 /\ result.partialText = <<>>)
            /\ (k = 2 /\ Len(chunks) = 3) =>
                   /\ result.completedChunks = 1
                   /\ result.totalChunks = 3
                   /\ result.partialText = calls[1].response.body.text

\* chunk 2 of 3 fails after chunk 1 gave text and segments
C3_Witness ==
    /\ pc = "done"
    /\ Len(chunks) = 3
    /\ Len(calls) = 2
    /\ calls[2].status = "failed"
    /\ calls[1].response.body.text # <<>>
    /\ ProviderSegments(1) # <<>>

\* every chunk of a request that went through the extractor was transcribed
AllChunksTranscribed ==
    /\ pc = "done"
    /\ chunkCheck # Undefined
    /\ chunkCheck.needsChunking
    /\ Len(chunks) >= 1
    /\ Len(calls) = Len(chunks)
    /\ \A k \in 1..Len(calls) : calls[k].status = "ok"

\* C4: when every chunk is transcribed, the request returns success = true with
\* wasChunked = true, the segments of all chunks in chunk order, and one summary
\* per chunk, in order, carrying the chunk's index, start time, end time,
\* duration and text.
C4_ChunkedSuccess ==
    AllChunksTranscribed =>
        /\ result.success = TRUE
        /\ result.wasChunked = TRUE
        /\ result.segments = MergedSegments(Len(chunks))
        /\ Len(result.chunks) = Len(chunks)
        /\ \A k \in 1..Len(chunks) :
               LET s == result.chunks[k]
               IN /\ s.chunkIndex = k - 1
                  /\ s.chunkIndex = chunks[k].index
                  /\ s.startTime = chunks[k].startTime
                  /\ s.endTime = chunks[k].endTime
                  /\ s.text = calls[k].response.body.text
                  /\ s.duration # Undefined
                  /\ s.duration = RatSub(chunks[k].endTime, chunks[k].startTime)

\* C5: the accumulated text is the chunk texts in chunk order joined by a single
\* space, the space put before a chunk's text only when text is already
\* accumulated; the text of a request of 2 chunks, the first with text, is
\* text 1, one space, text 2.
C5_TextJoined ==
    /\ (pc \in {"loop", "awaitChunk"}) => totalText = JoinedText(i)
    /\ AllChunksTranscribed =>
           /\ result.text = JoinedText(Len(chunks))
           /\ (Len(chunks) = 2 /\ calls[1].response.body.text # <<>>) =>
                  result.text = calls[1].response.body.text \o <<" ">>
                                    \o calls[2].response.body.text

\* three chunks done, the first without text and the others with different texts
C5_Witness ==
    /\ AllChunksTranscribed
    /\ Len(chunks) = 3
    /\ calls[1].response.body.text = <<>>
    /\ calls[2].response.body.text = <<"b">>
    /\ calls[3].response.body.text = <<"a">>
    /\ result.text = <<"b", " ", "a">>

\* C6: for a chunk that starts at an offset > 0, every segment returned has its
\* start and its end increased by exactly the chunk's start time, the number,
\* order, id and text of the segments unchanged; the second chunk of a request
\* starts at 300 s, so its segments are moved by exactly 300 s.
C6_SegmentsShifted ==
    \A k \in 1..Len(calls) :
        (calls[k].status = "ok" /\ calls[k].timeOffset.n > 0) =>
            LET given == ProviderSegments(k)
                got == calls[k].returned.segments
                offset == calls[k].timeOffset
            IN /\ offset = chunks[k].startTime
               /\ Len(got) = Len(given)
               /\ \A j \in 1..Len(given) :
                      /\ DOMAIN got[j] = DOMAIN given[j]
                      /\ got[j].id = given[j].id
                      /\ got[j].text = given[j].text
                      /\ got[j].start.n * given[j].start.d * offset.d
                             = (given[j].start.n * offset.d + offset.n * given[j].start.d)
                                   * got[j].start.d
                      /\ got[j].end.n * given[j].end.d * offset.d
                             = (given[j].end.n * offset.d + offset.n * given[j].end.d)
                                   * got[j].end.d
               /\ calls[k].chunk = 1 =>
                      /\ offset = RatInt(300)
                      /\ \A j \in 1..Len(given) :
                             got[j].start = RatAdd(given[j].start, RatInt(300))

\* the second chunk returned two segments
C6_Witness ==
    /\ Len(calls) >= 2
    /\ calls[2].status = "ok"
    /\ calls[2].chunk = 1
    /\ Len(calls[2].returned.segments) = 2
    /\ calls[2].returned.segments[2].end = RatInt(304)

----------------------------------------------------------------------------
(* Claim about transcribeSingleAudio, checked under SpecSingle *)

\* C7: with an offset that is not > 0 (0 in particular) the segments are
\* returned as the provider gave them, unchanged in value and in order.
C7_ZeroOffsetIdentity ==
    (/\ singlePc = "returned"
     /\ singleIn.response.kind = "ok"
     /\ ~(singleIn.timeOffset.n > 0)) =>
        /\ singleOut.success
        /\ singleOut.segments =
               (IF "segments" \in DOMAIN singleIn.response.body
                THEN singleIn.response.body.segments
                ELSE <<>>)

\* a call with offset 0 returned the provider's two segments
C7_Witness ==
    /\ singlePc = "returned"
    /\ singleIn.timeOffset = RatInt(0)
    /\ singleIn.response.kind = "ok"
    /\ singleOut.segments = <<Seg0, Seg1>>

----------------------------------------------------------------------------
(* Claims about fetchWithRetry, checked under SpecRetry *)

\* a thrown error that is a timeout, a connection reset or a generic 'fetch failed'
TransportFailure(error) ==
    error.code \in {"ETIMEDOUT", "ECONNRESET"} \/ error.fetchFailed

\* C8: at most 3 attempts are made, an attempt is made again only after a
\* transport-level failure, and a response of the provider, whatever its status,
\* is returned at once and never retried.
C8_RetryOnlyTransport ==
    /\ Len(attempts) <= 3
    /\ \A k \in 1..Len(attempts) :
           /\ attempts[k].n = k
           /\ k > 1 => /\ attempts[k - 1].status = "rejected"
                       /\ TransportFailure(attempts[k - 1].error)
           /\ attempts[k].status = "resolved" =>
                  /\ k = Len(attempts)
                  /\ fetchPc = "returned"
                  /\ fetchOutcome.returned = attempts[k].response
    /\ (Len(attempts) >= 1 /\ attempts[1].status = "resolved") => Len(attempts) = 1

\* the provider answers the third attempt with an error status, which is returned
C8_Witness ==
    /\ Len(attempts) = 3
    /\ attempts[3].status = "resolved"
    /\ ~attempts[3].response.ok
    /\ fetchPc = "returned"
    /\ fetchOutcome.returned.status = 500

\* three attempts have all failed at transport level
ThreeTransportFailures ==
    /\ Len(attempts) = 3
    /\ \A k \in 1..3 :
           attempts[k].status = "rejected" /\ TransportFailure(attempts[k].error)

\* C9: when all 3 attempts fail with retryable errors, the error thrown is the
\* error of the third attempt, no fourth attempt is made and no delay is waited
\* after the third.
C9_LastErrorPropagates ==
    /\ Len(attempts) <= 3
    /\ ThreeTransportFailures =>
           /\ fetchPc = "threw"
           /\ fetchOutcome.thrown = attempts[3].error
           /\ fetchOutcome.at = 3
           /\ Len(sleeps) = 2
           /\ \A k \in 1..Len(sleeps) : sleeps[k].status = "woken"
           /\ timerDelay = 0

\* three transport failures, the last of another kind than the first two
C9_Witness ==
    /\ ThreeTransportFailures
    /\ fetchPc = "threw"
    /\ attempts[1].error.code = "ETIMEDOUT"
    /\ attempts[2].error.code = "ETIMEDOUT"
    /\ attempts[3].error.code = "ECONNRESET"
    /\ fetchOutcome.thrown.code = "ECONNRESET"

\* C10: the delay waited after failed attempt n is exactly 1000 ms x n (1000 ms
\* after attempt 1, 2000 ms after attempt 2), and attempt n+1 does not start
\* before that delay has elapsed.
C10_LinearBackoff ==
    /\ \A k \in 1..Len(sleeps) :
           /\ sleeps[k].after = k
           /\ sleeps[k].delay = 1000 * k
           /\ sleeps[k].status = "woken" => sleeps[k].waited >= 1000 * k
    /\ fetchPc = "sleeping" => /\ timerDelay = 1000 * attempt
                               /\ Len(sleeps) = attempt
                               /\ sleeps[attempt].status = "waiting"
    /\ \A k \in 2..Len(attempts) :
           /\ Len(sleeps) >= k - 1
           /\ sleeps[k - 1].status = "woken"
           /\ sleeps[k - 1].waited >= 1000 * (k - 1)
    /\ Len(sleeps) >= 1 => sleeps[1].delay = 1000
    /\ Len(sleeps) >= 2 => sleeps[2].delay = 2000

\* the third attempt has started, after waits of 1000 ms and of 2000 ms
C10_Witness ==
    /\ Len(attempts) = 3
    /\ Len(sleeps) = 2
    /\ sleeps[1].status = "woken" /\ sleeps[1].waited = 1000
    /\ sleeps[2].status = "woken" /\ sleeps[2].waited = 2000

\* an attempt rejected with an error that is not a transport failure
RejectedForGood(k) ==
    /\ attempts[k].status = "rejected"
    /\ ~TransportFailure(attempts[k].error)

\* C27: an error of the fetch that is neither a timeout, a connection reset nor
\* a 'fetch failed' is thrown by fetchWithRetry at the attempt where it occurs:
\* no attempt and no delay follows it, and at the first attempt that makes one
\* attempt and no delay in all.
C27_NonRetryablePropagates ==
    \A k \in 1..Len(attempts) :
        RejectedForGood(k) =>
            /\ k = Len(attempts)
            /\ fetchPc = "threw"
            /\ fetchOutcome.thrown = attempts[k].error
            /\ fetchOutcome.at = k
            /\ Len(sleeps) = k - 1
            /\ \A j \in 1..Len(sleeps) : sleeps[j].status = "woken"
            /\ timerDelay = 0
            /\ k = 1 => Len(attempts) = 1 /\ sleeps = <<>> /\ elapsed = 0

\* the first attempt was rejected with ENOTFOUND, which was thrown at once
C27_Witness ==
    /\ Len(attempts) = 1
    /\ RejectedForGood(1)
    /\ attempts[1].error.code = "ENOTFOUND"
    /\ fetchPc = "threw"
    /\ fetchOutcome.thrown = attempts[1].error
    /\ sleeps = <<>>

\* an error that is not retryable ends the call at the second attempt as well
NonRetryableAtSecondAttempt ==
    /\ Len(attempts) = 2
    /\ RejectedForGood(2)
    /\ fetchPc = "threw"
    /\ Len(sleeps) = 1

----------------------------------------------------------------------------
(* checkIfNeedsChunking, under SpecClassify *)

\* what the call was given, read off its inputs alone
SizeOverLimit == classifyIn.size > classifyIn.maxSizeMB * BytesPerMB
DurationOverLimit ==
    /\ classifyIn.probeOk
    /\ classifyIn.length > classifyIn.maxDurationSeconds * classifyIn.sampleRate

ReasonCites(out, what) ==
    /\ "cites" \in DOMAIN out.reason
    /\ out.reason.cites = what

\* C11: checkIfNeedsChunking decides in this order: a size over the size limit
\* requires chunking with a reason citing the size; otherwise a known duration
\* over maxDurationSeconds requires chunking with a reason citing the duration;
\* otherwise needsChunking is false and the reason is null.  A size or a
\* duration exactly at its limit does not require chunking.
C11_DecisionOrder ==
    classifyPc = "returned" =>
        IF SizeOverLimit
        THEN classifyOut.needsChunking = TRUE /\ ReasonCites(classifyOut, "size")
        ELSE IF DurationOverLimit
        THEN classifyOut.needsChunking = TRUE /\ ReasonCites(classifyOut, "duration")
        ELSE classifyOut.needsChunking = FALSE /\ classifyOut.reason = Null

\* a file over both limits is reported for its size
C11_Witness ==
    /\ classifyPc = "returned"
    /\ SizeOverLimit
    /\ DurationOverLimit
    /\ ReasonCites(classifyOut, "size")

----------------------------------------------------------------------------
(* transcribeAudio after a failed duration probe, under Spec *)

\* the request is past its analysis, the probe of its file having failed
ProbeFailedRequest == pc # "start" /\ onProgress # "throws" /\ ~file.probeOk

SizeOverDefault == file.size > MaxSizeBytes

\* C12: a failed duration probe is not fatal: checkIfNeedsChunking returns with
\* duration = null, needsChunking true exactly when the size exceeds the size
\* limit, and a chunk count estimated from the size alone (the size in 10 MB
\* pieces, rounded up, when chunking is needed, 1 otherwise); transcribeAudio
\* goes on with that decision, to the single call or to the extractor.
C12_ProbeFailureNotFatal ==
    ProbeFailedRequest =>
        /\ chunkCheck # Undefined
        /\ chunkCheck.duration = Null
        /\ chunkCheck.needsChunking = SizeOverDefault
        /\ chunkCheck.estimatedChunks =
               IF SizeOverDefault
               THEN (file.size + 10 * BytesPerMB - 1) \div (10 * BytesPerMB)
               ELSE 1
        /\ pc # "analyzed" =>
               IF SizeOverDefault
               THEN extractions = 1 /\ \A k \in 1..Len(calls) : calls[k].chunk >= 0
               ELSE extractions = 0 /\ Len(calls) = 1 /\ calls[1].chunk = -1

\* the probe failed, the size alone required chunking, and the chunks are being
\* transcribed
C12_Witness ==
    /\ ProbeFailedRequest
    /\ pc = "awaitChunk"
    /\ chunkCheck.duration = Null
    /\ chunkCheck.estimatedChunks = 3
    /\ Len(chunks) >= 2

----------------------------------------------------------------------------
(* checkIfNeedsChunking's estimate, under SpecClassify *)

\* ceil(duration / CHUNK_DURATION_SECONDS), in whole samples
DurationCeiling ==
    (classifyIn.length + CHUNK_DURATION_SECONDS * classifyIn.sampleRate - 1)
        \div (CHUNK_DURATION_SECONDS * classifyIn.sampleRate)

\* C13 as stated: whenever the probe succeeds, estimatedChunks equals
\* ceil(duration / chunkDurationSeconds), for every size, duration and
\* maxDurationSeconds, whether or not chunking is required.
C13_EstimateIsCeiling ==
    (classifyPc = "returned" /\ classifyIn.probeOk) =>
        classifyOut.estimatedChunks = DurationCeiling

\* C13 amended: whenever the probe succeeds, estimatedChunks equals
\* ceil(duration / CHUNK_DURATION_SECONDS) when chunking is required (by the
\* size or by the duration) and equals 1 when chunking is not required.
C13_EstimateWhenChunking ==
    (classifyPc = "returned" /\ classifyIn.probeOk) =>
        classifyOut.estimatedChunks =
            IF SizeOverLimit \/ DurationOverLimit THEN DurationCeiling ELSE 1

\* a file one second over one chunk duration, chunked for its duration: 2 chunks
C13_Witness ==
    /\ classifyPc = "returned"
    /\ classifyIn.probeOk
    /\ ~SizeOverLimit
    /\ DurationOverLimit
    /\ classifyIn.length = (CHUNK_DURATION_SECONDS + 1) * classifyIn.sampleRate
    /\ classifyOut.estimatedChunks = 2

----------------------------------------------------------------------------
(* splitAudioIntoChunks on short files and on bad chunk durations, under SpecSplit *)

\* the decoded file lasts at most chunkDurationSeconds: length / sampleRate <= n / d
ShortFile ==
    /\ splitIn.decodable
    /\ splitIn.length * splitIn.chunkDurationSeconds.d
           <= splitIn.chunkDurationSeconds.n * splitIn.sampleRate

\* C14: for every file lasting at most the chunk duration, splitAudioIntoChunks
\* returns exactly one chunk, with index 0, startTime 0, endTime the file's
\* duration, and the original file itself as payload.
C14_ShortFileOneChunk ==
    (splitPc # "start" /\ ShortFile) =>
        /\ splitPc = "returned"
        /\ Len(splitChunks) = 1
        /\ splitChunks[1].index = 0
        /\ splitChunks[1].startTime = RatInt(0)
        /\ splitChunks[1].endTime = Rat(splitIn.length, splitIn.sampleRate)
        /\ splitChunks[1].blob.kind = "file"
        /\ splitChunks[1].blob.frames = splitIn.length

\* a file lasting exactly one chunk duration is returned as it is
C14_Witness ==
    /\ splitPc = "returned"
    /\ ShortFile
    /\ Rat(splitIn.length, splitIn.sampleRate) = splitIn.chunkDurationSeconds
    /\ splitChunks[1].blob.kind = "file"

\* chunkDurationSeconds <= 0
BadChunkDuration == splitIn.chunkDurationSeconds.n <= 0

\* C20: called with chunkDurationSeconds <= 0, splitAudioIntoChunks fails with a
\* configuration error (InvalidConfig) and produces no chunks; it neither
\* returns a chunk list nor runs on.
C20_InvalidConfig ==
    (splitPc # "start" /\ BadChunkDuration) =>
        /\ splitPc = "threw"
        /\ splitError = "InvalidConfig"
        /\ splitChunks = <<>>

\* what the call does instead: it never returns, and an undecodable file aside,
\* it ends when createBuffer refuses the first chunk, the context left open
BadChunkDurationThrowsLate ==
    (splitPc # "start" /\ BadChunkDuration) =>
        /\ splitPc \in {"loop", "threw"}
        /\ splitChunks = <<>>
        /\ audioContext = "running"
        /\ (splitPc = "threw" /\ splitIn.decodable) => splitError = "createBuffer"

----------------------------------------------------------------------------
(* transcribeAudio without chunking, under Spec *)

\* the classifier has reported needsChunking = false
NoChunkingNeeded == chunkCheck # Undefined /\ chunkCheck.needsChunking = FALSE

\* C15: when the classifier reports needsChunking = false, transcribeAudio never
\* calls splitAudioIntoChunks, makes exactly one transcription call, with the
\* original file and a zero time offset, and returns that call's outcome
\* (success when the call succeeded).
C15_SingleShot ==
    NoChunkingNeeded =>
        /\ extractions = 0
        /\ chunks = <<>>
        /\ Len(calls) <= 1
        /\ \A k \in 1..Len(calls) :
               /\ calls[k].payload.kind = "file"
               /\ calls[k].payload.frames = file.length
               /\ calls[k].timeOffset = RatInt(0)
        /\ pc = "done" =>
               /\ Len(calls) = 1
               /\ result = calls[1].returned
               /\ result.success = (calls[1].response.kind = "ok")
               /\ result.success =>
                      /\ result.text = calls[1].response.body.text
                      /\ result.segments = ProviderSegments(1)

\* a request answered by its single call, with segments
C15_Witness ==
    /\ NoChunkingNeeded
    /\ pc = "done"
    /\ result.success
    /\ result.segments # <<>>
    /\ Len(calls) = 1

----------------------------------------------------------------------------
(* the shape of what transcribeAudio returns, under Spec *)

SuccessFields ==
    {"success", "text", "segments", "language", "duration", "wasChunked", "chunks"}
FailureFields ==
    {"success", "error", "partialText", "segments", "completedChunks", "totalChunks"}

\* the promise has resolved with a value
HasReturned == pc = "done" /\ "rejected" \notin DOMAIN result

\* C16: every result returned by transcribeAudio is exactly one of the two
\* variants: success = true with text, segments, language, duration, wasChunked
\* and chunks, or success = false with error, partialText, segments,
\* completedChunks and totalChunks; it carries all the fields of its own variant
\* and no field that only the other has, on every path.
C16_TaggedVariant ==
    HasReturned =>
        \/ result.success = TRUE /\ DOMAIN result = SuccessFields
        \/ result.success = FALSE /\ DOMAIN result = FailureFields

\* the paths apart: only the result of a failed chunk has its variant's fields
SingleShotSuccessShape ==
    (HasReturned /\ result.success /\ Len(chunks) = 0) =>
        DOMAIN result = SuccessFields \ {"wasChunked", "chunks"}
ChunkedSuccessShape ==
    (HasReturned /\ result.success /\ Len(chunks) > 0) =>
        DOMAIN result = (SuccessFields \ {"duration"}) \cup {"totalDuration"}
ChunkFailureShape ==
    (HasReturned /\ ~result.success /\ Len(calls) > 0 /\ Len(chunks) > 0) =>
        DOMAIN result = FailureFields
OtherFailureShape ==
    (HasReturned /\ ~result.success /\ ~(Len(calls) > 0 /\ Len(chunks) > 0)) =>
        DOMAIN result = {"success", "error"}
NoMixedResult ==
    HasReturned =>
        IF result.success
        THEN DOMAIN result \cap (FailureFields \ SuccessFields) = {}
        ELSE DOMAIN result \cap (SuccessFields \ FailureFields) = {}

----------------------------------------------------------------------------
(* the notifications of a request, under Spec *)

\* the caller gave a sink, and it returns normally
SinkListens == onProgress = "ignores"

Notified(status) == \E k \in 1..Len(notifications) : notifications[k].status = status

LastNotification == notifications[Len(notifications)]

\* every notification has a status tag and a message
WellFormedNotifications ==
    \A k \in 1..Len(notifications) :
        {"status", "message"} \subseteq DOMAIN notifications[k]

\* the request ended on a failed chunk, with the partial result
PartiallyFailed ==
    /\ pc = "done"
    /\ "completedChunks" \in DOMAIN result

\* the states through Completed are announced when they are entered
TransitionsToCompletedNotified ==
    SinkListens =>
        /\ WellFormedNotifications
        /\ pc # "start" => Notified("analyzing")
        /\ extractions > 0 =>
               \E k \in 1..Len(notifications) :
                   /\ notifications[k].status = "chunking"
                   /\ notifications[k].message.N = chunkCheck.estimatedChunks
        /\ pc = "extracting" => LastNotification.status = "chunking"
        /\ Len(calls) > 0 => Notified("transcribing")
        /\ (pc = "done" /\ result.success) => LastNotification.status = "completed"

\* C17: every state transition of the orchestrator (to Analyzing, Chunking,
\* Transcribing, Completed and PartiallyFailed) is notified to the caller's sink
\* with a status tag and a message; the chunking notification, with the
\* estimated chunk count, is emitted before the extraction starts, and a
\* transition to PartiallyFailed after a chunk failure is notified.
C17_EveryTransitionNotified ==
    /\ TransitionsToCompletedNotified
    /\ (SinkListens /\ PartiallyFailed) =>
           LastNotification.status \notin {"analyzing", "chunking", "transcribing"}

----------------------------------------------------------------------------
(* the sink and the control flow, under Spec *)

\* what a call was made with
CallMade(blob, timeOffset) == [payload |-> blob, timeOffset |-> timeOffset]

\* the loop of lines 121-165 run without a sink over the responses rs, from
\* chunk k on: the calls made and the result, or settled = FALSE when the loop
\* needs a response that rs does not have
RECURSIVE SinklessLoop(_, _, _, _, _, _, _)
SinklessLoop(check, cs, rs, k, text, segments, summaries) ==
    IF k > Len(cs)
    THEN [settled |-> TRUE,
          calls |-> [j \in 1..Len(cs) |-> CallMade(cs[j].blob, cs[j].startTime)],
          result |-> ChunkedSuccess(text, segments, summaries, check)]
    ELSE IF k > Len(rs)
    THEN [settled |-> FALSE, chunks |-> cs, text |-> text, segments |-> segments]
    ELSE LET r == transcribeSingleAudio(rs[k], cs[k].startTime)
         IN IF StopsOnFailure(r)
            THEN [settled |-> TRUE,
                  calls |-> [j \in 1..k |-> CallMade(cs[j].blob, cs[j].startTime)],
                  result |-> PartialFailure(k - 1, r, text, segments, Len(cs))]
            ELSE SinklessLoop(check, cs, rs, k + 1, AppendText(text, r.text),
                              segments \o r.segments,
                              Append(summaries, ChunkSummary(k - 1, cs[k], r.text)))

\* transcribeAudio(f) without a sink, the collaborators answering as in rs
SinklessRun(f, rs) ==
    LET check == checkIfNeedsChunking(f, DEFAULT_MAX_SIZE_MB,
                                      DEFAULT_MAX_DURATION_SECONDS)
        split == IF f.decodable
                 THEN splitAudioIntoChunks(f, RatInt(CHUNK_DURATION_SECONDS))
                 ELSE [threw |-> TRUE, chunks |-> <<>>]
    IN IF GoesDirect(check)
       THEN IF Len(rs) = 0
            THEN [settled |-> FALSE, chunks |-> <<>>, text |-> <<>>, segments |-> <<>>]
            ELSE [settled |-> TRUE,
                  calls |-> <<CallMade(FileBlob(f), RatInt(0))>>,
                  result |-> transcribeSingleAudio(rs[1], RatInt(0))]
       ELSE IF split.threw
       THEN [settled |-> TRUE, calls |-> <<>>,
             result |-> CaughtFailure(ExtractionError(f))]
       ELSE SinklessLoop(check, split.chunks, rs, 1, <<>>, <<>>, <<>>)

\* the responses this request received, and the calls it made
ResponsesReceived == [k \in 1..Len(calls) |-> calls[k].response]
CallsMade == [k \in 1..Len(calls) |-> CallMade(calls[k].payload, calls[k].timeOffset)]

\* this request made the calls and gave the result of the request without a sink
SameAsSinkless ==
    LET ref == SinklessRun(file, ResponsesReceived)
    IN /\ ref.settled
       /\ ref.calls = CallsMade
       /\ ref.result = result

\* C18: the sink cannot alter the control flow: for the same file and the same
\* collaborator responses, transcribeAudio makes the same transcription calls
\* and returns the same result whether the sink is absent, ignores the
\* notifications or throws when invoked.
C18_SinkCannotAlterFlow == pc = "done" => SameAsSinkless

\* a sink that returns, whatever it does with the notifications, alters nothing
ReturningSinkAltersNothing == (pc = "done" /\ onProgress # "throws") => SameAsSinkless

----------------------------------------------------------------------------
(* the progress values of a chunked request, under Spec *)

CarriesProgress(note) == "progress" \in DOMAIN note

\* the notifications that carry a progress value, in the order of delivery
ProgressNotes == SelectSeq(notifications, CarriesProgress)

ProgressNonDecreasing ==
    \A k \in 1..Len(ProgressNotes) - 1 :
        RatLeq(ProgressNotes[k].progress, ProgressNotes[k + 1].progress)

\* a chunked request with a listening sink, m chunks transcribed so far
ChunkedWithSink == SinkListens /\ Len(chunks) > 0

\* C19 as stated: after each chunk has been transcribed a notification names
\* the chunk number and the total and carries completedChunks / totalChunks, so
\* the value after the last chunk is 1, and the values never decrease.
C19_FractionAfterEachChunk ==
    ChunkedWithSink =>
        /\ \A m \in 1..i :
               \E k \in 1..Len(ProgressNotes) :
                   /\ "currentChunk" \in DOMAIN ProgressNotes[k]
                   /\ ProgressNotes[k].currentChunk = m
                   /\ ProgressNotes[k].totalChunks = Len(chunks)
                   /\ ProgressNotes[k].progress = Rat(m, Len(chunks))
        /\ AllChunksTranscribed =>
               ProgressNotes[Len(ProgressNotes)].progress = RatInt(1)
        /\ ProgressNonDecreasing

\* C19 amended: before each chunk is uploaded a notification names the chunk's
\* number k (from 1) and the total chunk count and carries the percentage
\* 100 * (k - 1) / totalChunks of the chunks already transcribed; no other
\* notification names a chunk; when the last chunk has been transcribed a
\* completed notification carries 100; the values never decrease.
C19_PercentBeforeEachChunk ==
    ChunkedWithSink =>
        /\ Len(ProgressNotes) = Len(calls) + (IF AllChunksTranscribed THEN 1 ELSE 0)
        /\ \A k \in 1..Len(calls) :
               /\ ProgressNotes[k].status = "transcribing"
               /\ ProgressNotes[k].currentChunk = k
               /\ ProgressNotes[k].totalChunks = Len(chunks)
               /\ ProgressNotes[k].progress = Rat(100 * (k - 1), Len(chunks))
        /\ AllChunksTranscribed =>
               /\ LastNotification.status = "completed"
               /\ LastNotification.progress = RatInt(100)
               /\ "currentChunk" \notin DOMAIN LastNotification
        /\ ProgressNonDecreasing

\* three chunks transcribed: 0, 100/3 and 200/3 before the chunks, 100 at the end
C19_Witness ==
    /\ ChunkedWithSink
    /\ AllChunksTranscribed
    /\ Len(chunks) = 3
    /\ Len(ProgressNotes) = 4
    /\ ProgressNotes[2].progress = Rat(100, 3)
    /\ ProgressNotes[3].progress = Rat(200, 3)
    /\ ProgressNotes[4].progress = RatInt(100)

----------------------------------------------------------------------------
(* two concurrent requests, under SpecPair *)

\* the answers request r has received so far, in order
AnswersOf(r) ==
    LET returned == SelectSeq(runs[r].calls, LAMBDA c : c.status # "pending")
    IN [k \in 1..Len(returned) |-> returned[k].response]

CallsOf(r) ==
    [k \in 1..Len(runs[r].calls) |->
         CallMade(runs[r].calls[k].payload, runs[r].calls[k].timeOffset)]

\* request r run alone on its file with the answers it received
Alone(r) == SinklessRun(runs[r].file, AnswersOf(r))

\* C21: two requests interleaved at any of their suspension points share no
\* mutable state: each request's chunk sequence, accumulated text, accumulated
\* segments and result are those the request produces when run alone.
C21_RequestsIndependent ==
    \A r \in Requests :
        /\ runs[r].pc \in {"loop", "awaitChunk"} =>
               /\ ~Alone(r).settled \/ runs[r].pc = "loop"
               /\ ~Alone(r).settled =>
                      /\ Locals(r).chunks = Alone(r).chunks
                      /\ Locals(r).totalText = Alone(r).text
                      /\ Locals(r).allSegments = Alone(r).segments
        /\ runs[r].pc = "done" =>
               /\ Alone(r).settled
               /\ Alone(r).calls = CallsOf(r)
               /\ Alone(r).result = runs[r].result

\* both requests are in their chunk loops at once, each with one chunk
\* transcribed and the next one uploaded, with different accumulated texts
C21_Witness ==
    /\ \A r \in Requests : runs[r].pc = "awaitChunk" /\ Len(AnswersOf(r)) = 1
    /\ Locals(1).totalText = <<"a">>
    /\ Locals(2).totalText = <<"b">>
    /\ Locals(1).allSegments # Locals(2).allSegments

----------------------------------------------------------------------------
(* Claims about the route POST, checked under SpecProxy *)

ProxyErrorStrings ==
    {"GROQ_API_KEY is not configured", "No audio file provided", "Invalid API Key",
     "Failed to transcribe audio", "Request timed out. Please try again.",
     "Connection was reset. Please try again.",
     "Network error. Please check your connection and try again.",
     "Internal server error"}

ProxyAnswered == proxyPc = "done"

ProxyFailed == ProxyAnswered /\ proxyResponse.status # 200

UpstreamCalls == Len(attempts)

\* C22: the route answers 500 without reading the request body and without an
\* upstream call when GROQ_API_KEY is not set, 400 without an upstream call when
\* the form has no file, the provider's own status when the provider answered
\* with an error status, and 500 when the upstream call threw (a transport
\* failure only after the third attempt); every failure body carries an error
\* string and no success flag, and every other answer is a 200 with the flag.
C22_FailureStatuses ==
    ProxyAnswered =>
        /\ ~request.apiKey =>
               /\ proxyResponse.status = 500
               /\ ~bodyRead
               /\ UpstreamCalls = 0
        /\ (request.apiKey /\ request.form.readable /\ ~request.form.file) =>
               /\ proxyResponse.status = 400
               /\ UpstreamCalls = 0
        /\ (fetchPc = "returned" /\ ~fetchOutcome.returned.ok) =>
               /\ proxyResponse.status = fetchOutcome.returned.status
               /\ proxyResponse.status # 200
        /\ fetchPc = "threw" =>
               /\ proxyResponse.status = 500
               /\ TransportFailure(fetchOutcome.thrown) => UpstreamCalls = MAX_RETRIES
        /\ ProxyFailed =>
               /\ "error" \in DOMAIN proxyResponse.body
               /\ proxyResponse.body.error \in ProxyErrorStrings
               /\ "success" \notin DOMAIN proxyResponse.body
        /\ ~ProxyFailed =>
               /\ fetchPc = "returned" /\ fetchOutcome.returned.ok
               /\ proxyResponse.body.success

\* the provider answered 429 with a body that is not JSON, and the route passed
\* the status on with the default error string
C22_Witness ==
    /\ ProxyAnswered
    /\ fetchPc = "returned"
    /\ fetchOutcome.returned.status = 429
    /\ upstreamBody = [parsed |-> FALSE]
    /\ proxyResponse.status = 429
    /\ proxyResponse.body.error = "Failed to transcribe audio"

\* three transport failures in a row end in a 500
ProxyTransportFailure ==
    /\ ProxyAnswered
    /\ fetchPc = "threw"
    /\ UpstreamCalls = 3
    /\ proxyResponse.status = 500

\* a missing credential and a missing file are answered without an upstream call
ProxyEarlyFailures ==
    ProxyAnswered /\ UpstreamCalls = 0 /\ proxyResponse.status \in {400, 500}

TimestampsRequested == request.form.include_timestamps = "true"

\* trimmed is text without the whitespace that surrounds it
TrimmedOf(trimmed, text) ==
    /\ \E lead \in 0..Len(text) :
           /\ \A k \in 1..lead : text[k] \in Whitespace
           /\ Len(trimmed) <= Len(text) - lead
           /\ trimmed = SubSeq(text, lead + 1, lead + Len(trimmed))
           /\ \A k \in (lead + Len(trimmed) + 1)..Len(text) : text[k] \in Whitespace
    /\ Len(trimmed) > 0 =>
           /\ trimmed[1] \notin Whitespace
           /\ trimmed[Len(trimmed)] \notin Whitespace

\* what the client makes of the route's answer, for a payload at some offset
ClientResult(timeOffset) ==
    transcribeSingleAudio([kind |-> "ok", body |-> proxyResponse.body], timeOffset)

\* C23: the route asks the provider for verbose_json exactly when timestamps are
\* requested and for json otherwise; a 200 answer to a request with timestamps
\* carries one {id, start, end, text} per segment of the provider, the text
\* without its surrounding whitespace; a 200 answer to a request without
\* timestamps carries no segments whatever the provider sent, and the client's
\* result for it has an empty segment sequence at every offset.
C23_FormatAndSegments ==
    /\ upstream # Undefined =>
           upstream.response_format =
               IF TimestampsRequested THEN "verbose_json" ELSE "json"
    /\ (ProxyAnswered /\ proxyResponse.status = 200) =>
           LET body == proxyResponse.body
               given == upstreamBody.json
           IN /\ (TimestampsRequested /\ "segments" \in DOMAIN given) =>
                     /\ "segments" \in DOMAIN body
                     /\ Len(body.segments) = Len(given.segments)
                     /\ \A k \in 1..Len(given.segments) :
                            /\ DOMAIN body.segments[k] = {"id", "start", "end", "text"}
                            /\ body.segments[k].id = given.segments[k].id
                            /\ body.segments[k].start = given.segments[k].start
                            /\ body.segments[k].end = given.segments[k].end
                            /\ TrimmedOf(body.segments[k].text, given.segments[k].text)
              /\ ~TimestampsRequested =>
                     /\ "segments" \notin DOMAIN body
                     /\ ClientResult(RatInt(0)).segments = <<>>
                     /\ ClientResult(RatInt(300)).segments = <<>>

\* a request with timestamps answered with the provider's two segments, whose
\* texts " a" and "\nb c \t" come back as "a" and "b c"
C23_Witness ==
    /\ ProxyAnswered
    /\ proxyResponse.status = 200
    /\ TimestampsRequested
    /\ upstream.response_format = "verbose_json"
    /\ "segments" \in DOMAIN upstreamBody.json
    /\ upstreamBody.json.segments = <<ProviderSeg0, ProviderSeg1>>
    /\ proxyResponse.body.segments[1].text = <<"a">>
    /\ proxyResponse.body.segments[2].text = <<"b", " ", "c">>

\* a request without timestamps whose provider answer has segments all the same
PlainRequestDropsSegments ==
    /\ ProxyAnswered
    /\ proxyResponse.status = 200
    /\ ~TimestampsRequested
    /\ upstream.response_format = "json"
    /\ "segments" \in DOMAIN upstreamBody.json
    /\ "segments" \notin DOMAIN proxyResponse.body

\* without timestamps no chunk and no result of the orchestrator carries a segment
NoTimestampsNoSegments ==
    (file # Undefined /\ ~file.includeTimestamps) =>
        /\ allSegments = <<>>
        /\ \A k \in 1..Len(calls) :
               calls[k].status = "ok" => calls[k].returned.segments = <<>>
        /\ (HasReturned /\ "segments" \in DOMAIN result) => result.segments = <<>>
        /\ (HasReturned /\ "partialSegments" \in DOMAIN result) =>
               result.partialSegments = <<>>

\* a chunked run without timestamps that returned its merged result
MergedWithoutTimestamps ==
    /\ HasReturned
    /\ ~file.includeTimestamps
    /\ result.success
    /\ Len(calls) > 1
    /\ result.segments = <<>>

----------------------------------------------------------------------------
(* Claims about the validation service, checked under SpecPrepare *)

PrepareReturned == preparePc = "done"

PreparedReady == PrepareReturned /\ prepareOut.ready

LongerThanFiveMinutes(f) == RatLess(RatInt(300), ProbedDuration(f))

LargerThan25MB(f) == f.size > 25 * 1024 * 1024

\* what the orchestrator's decision point says of the same file
OrchestratorFlags(f) ==
    checkIfNeedsChunking(f, DEFAULT_MAX_SIZE_MB, DEFAULT_MAX_DURATION_SECONDS).needsChunking

PreparationFlags == prepareOut.processing.needsChunking = JsBoolean(TRUE)

\* C24: a file of an accepted format whose metadata loads and that is longer
\* than 300 s or larger than 25 MB is flagged as needing chunking both by
\* checkIfNeedsChunking and by prepareForTranscription.
C24_DecisionPointsAgree ==
    (PreparedReady /\ prepareIn.probeOk) =>
        ((LongerThanFiveMinutes(prepareIn) \/ LargerThan25MB(prepareIn)) =>
             /\ OrchestratorFlags(prepareIn)
             /\ PreparationFlags)

\* checkIfNeedsChunking alone flags every such file
OrchestratorFlagsLongOrLarge ==
    (PreparedReady /\ prepareIn.probeOk) =>
        ((LongerThanFiveMinutes(prepareIn) \/ LargerThan25MB(prepareIn)) =>
             OrchestratorFlags(prepareIn))

\* prepareForTranscription flags by duration only above 600 s
PreparationFlagsAboveTenMinutes ==
    (PreparedReady /\ prepareIn.probeOk) =>
        (PreparationFlags <=>
            \/ LargerThan25MB(prepareIn)
            \/ RatLess(RatInt(600), ProbedDuration(prepareIn)))

\* a file of 301 s and at most 25 MB: flagged by the one, not by the other
DecisionPointsDisagree ==
    /\ PreparedReady
    /\ prepareIn.probeOk
    /\ prepareIn.length = 301
    /\ ~LargerThan25MB(prepareIn)
    /\ OrchestratorFlags(prepareIn)
    /\ prepareOut.processing.needsChunking = JsBoolean(FALSE)
    /\ prepareOut.processing.chunkInfo = Null

\* the letters of text with every capital replaced by its small letter
Folded(text) ==
    [k \in 1..Len(text) |-> IF text[k] \in DOMAIN LowerOf THEN LowerOf[text[k]] ELSE text[k]]

\* the extension: what follows the last dot of the name, letters folded
ExtensionOf(f) == Folded(LastPart(f.name))

ListedFormats ==
    {<<"m", "p", "3">>, <<"m", "p", "4">>, <<"m", "p", "e", "g">>, <<"m", "p", "g", "a">>,
     <<"m", "4", "a">>, <<"w", "a", "v">>, <<"w", "e", "b", "m">>, <<"o", "g", "g">>,
     <<"f", "l", "a", "c">>, <<"a", "a", "c">>, <<"w", "m", "a">>, <<"a", "i", "f", "f">>}

Unlisted(f) == ExtensionOf(f) \notin ListedFormats

Enumerates(error) ==
    /\ "formats" \in DOMAIN error
    /\ {error.formats[k] : k \in 1..Len(error.formats)} = ListedFormats

\* C25: a file whose extension, compared in lower case, is in neither list is
\* never probed; prepareForTranscription returns ready = false and
\* processAudioFile success = false, and when the name has an extension the
\* error names it and enumerates the twelve formats; a file whose extension is
\* listed in any case of the letters is accepted and probed once.
C25_UnsupportedRejectedBeforeProbe ==
    /\ Unlisted(prepareIn) =>
           /\ probes = 0
           /\ preparePc # "probing"
           /\ PrepareReturned =>
                  /\ prepareOut.ready = FALSE
                  /\ ExtensionOf(prepareIn) # <<>> =>
                         /\ Enumerates(prepareOut.error)
                         /\ prepareOut.error.extension = ExtensionOf(prepareIn)
           /\ processOut # Undefined =>
                  /\ processOut.success = FALSE
                  /\ processOut.file = Null
                  /\ ExtensionOf(prepareIn) # <<>> => Enumerates(processOut.error)
    /\ ~Unlisted(prepareIn) =>
           /\ preparePc # "start" => probes = 1
           /\ PrepareReturned => prepareOut.ready
           /\ processOut # Undefined => processOut.success

\* a.txt was rejected by both functions without a probe
C25_Witness ==
    /\ PrepareReturned
    /\ processOut # Undefined
    /\ prepareIn.name = <<"a", ".", "t", "x", "t">>
    /\ probes = 0
    /\ ~prepareOut.ready
    /\ ~processOut.success
    /\ Enumerates(prepareOut.error)

\* a.MP3 and a.FLAC are accepted
UpperCaseAccepted ==
    /\ PreparedReady
    /\ prepareIn.name \in {<<"a", ".", "M", "P", "3">>, <<"a", ".", "F", "L", "A", "C">>}
    /\ probes = 1

\* a name that ends with a dot, or the empty name, is rejected without a probe
\* with 'Unable to determine file format'
NoExtensionRejected ==
    (PrepareReturned /\ ExtensionOf(prepareIn) = <<>>) =>
        /\ ~prepareOut.ready
        /\ probes = 0
        /\ prepareOut.error = [template |-> "Unable to determine file format"]

----------------------------------------------------------------------------
(* Claims about formatTimestamp, checked under SpecFormat *)

Formatted == formatPc = "done"

WholeSeconds == formatIn.d = 1

DigitValue(c) == CHOOSE v \in 0..9 : DigitChars[v + 1] = c

IsDigit(c) == \E v \in 0..9 : DigitChars[v + 1] = c

\* the value of a field read as a decimal number
RECURSIVE FieldValue(_)
FieldValue(text) ==
    IF text = <<>> THEN 0
    ELSE 10 * FieldValue(SubSeq(text, 1, Len(text) - 1)) + DigitValue(text[Len(text)])

\* a field: digits only, two of them at least, no more than needed
WellPadded(text) ==
    /\ Len(text) >= 2
    /\ \A k \in 1..Len(text) : IsDigit(text[k])
    /\ Len(text) > 2 => text[1] # "0"

Colons(text) == {k \in 1..Len(text) : text[k] = ":"}

\* text is the fields, in order, with a colon between them
IsFields(text, fields) ==
    LET cut == [k \in 0..Len(fields) |->
                    IF k = 0 THEN 0
                    ELSE IF k = Len(fields) THEN Len(text) + 1
                    ELSE CHOOSE c \in Colons(text) :
                             Cardinality({b \in Colons(text) : b <= c}) = k]
    IN /\ Cardinality(Colons(text)) = Len(fields) - 1
       /\ \A k \in 1..Len(fields) :
              LET part == SubSeq(text, cut[k - 1] + 1, cut[k] - 1)
              IN WellPadded(part) /\ FieldValue(part) = fields[k]

\* C26: for a whole number s of seconds formatTimestamp gives HH:MM:SS when
\* s >= 3600 and MM:SS otherwise, where HH = floor(s / 3600),
\* MM = floor((s mod 3600) / 60) and SS = s mod 60 are written in decimal,
\* padded with zeros to two digits; 3661 gives 01:01:01 and 65 gives 01:05.
C26_TimestampFormat ==
    (Formatted /\ WholeSeconds) =>
        LET s == formatIn.n
        IN /\ s >= 3600 =>
                  IsFields(formatOut, <<s \div 3600, (s % 3600) \div 60, s % 60>>)
           /\ s < 3600 => IsFields(formatOut, <<(s % 3600) \div 60, s % 60>>)
           /\ s = 3661 => formatOut = <<"0", "1", ":", "0", "1", ":", "0", "1">>
           /\ s = 65 => formatOut = <<"0", "1", ":", "0", "5">>

\* 3661 s has been formatted
C26_Witness ==
    /\ Formatted
    /\ formatIn = RatInt(3661)
    /\ formatOut = <<"0", "1", ":", "0", "1", ":", "0", "1">>

\* 65 s has been formatted
SixtyFiveFormatted ==
    /\ Formatted
    /\ formatIn = RatInt(65)
    /\ formatOut = <<"0", "1", ":", "0", "5">>

\* a hundred hours take three digits
HundredHoursFormatted ==
    /\ Formatted
    /\ formatIn = RatInt(360000)
    /\ formatOut = <<"1", "0", "0", ":", "0", "0", ":", "0", "0">>

----------------------------------------------------------------------------
(* A decode failure during the extraction, under Spec *)

\* splitAudioIntoChunks was called on a file that cannot be decoded
DecodeFails == extractions >= 1 /\ ~file.decodable

\* C28: when decodeAudioData rejects during the extraction, transcribeAudio
\* makes no call to /api/transcribe, before or after, and returns exactly
\* {success: false, error: the decoder's message}: no text, no segments and no
\* partial fields, nothing having been accumulated.
C28_DecodeFailureIsFatal ==
    DecodeFails =>
        /\ calls = <<>>
        /\ pc \in {"extracting", "done"}
        /\ totalText = <<>> /\ allSegments = <<>> /\ transcriptions = <<>>
        /\ pc = "done" =>
               /\ result = [success |-> FALSE, error |-> DecodeErrorMessage]
               /\ DOMAIN result = {"success", "error"}

\* a request with a listening sink ended on a decode failure, which the sink was told
C28_Witness ==
    /\ DecodeFails
    /\ pc = "done"
    /\ onProgress = "ignores"
    /\ result = [success |-> FALSE, error |-> DecodeErrorMessage]
    /\ calls = <<>>
    /\ LastNotification = NoteError(DecodeErrorMessage)

----------------------------------------------------------------------------
(* Failures of one call of transcribeSingleAudio, under SpecSingle *)

SingleSettled == singlePc \in {"returned", "rejected"}

\* the value the claim expects for a fetch that did not give an ok answer
ExpectedOfResponse(response) ==
    IF response.kind = "notOk"
    THEN IF "error" \in DOMAIN response.body
         THEN [success |-> FALSE, error |-> response.body.error]
         ELSE [success |-> FALSE, error |-> "Failed to transcribe audio"]
    ELSE [success |-> FALSE, error |-> response.message]

ReportedAsValue ==
    /\ singlePc = "returned"
    /\ IF singleIn.response.kind = "ok"
       THEN singleOut.success
       ELSE singleOut = ExpectedOfResponse(singleIn.response)

\* C29: every call of transcribeSingleAudio settles by returning a value:
\* {success: false, error} with the proxy's error string or the default message
\* for an answer that is not ok, with the failure's message for a rejected fetch
\* or a body that is not JSON, and a success result only for an ok answer.
C29_FailuresAreValues == SingleSettled => ReportedAsValue

\* the same for the calls whose sink, if any, returns
FailuresAreValuesUnlessSinkThrows ==
    (SingleSettled /\ singleIn.onProgress \in {"absent", "ignores"}) => ReportedAsValue

\* a rejected fetch with a sink that throws when told of the error: the promise
\* is rejected with the sink's error
NetworkFailureRejects ==
    /\ singlePc = "rejected"
    /\ singleIn.onProgress = "throwsOnError"
    /\ singleIn.response.kind = "threw"
    /\ singleOut = Rejected(SinkError)
    /\ singleNotes[Len(singleNotes)] = NoteError("Failed to fetch")

\* a body that is not JSON is reported as a value when the sink returns
UnparseableBodyReported ==
    /\ singlePc = "returned"
    /\ singleIn.response.kind = "unparseable"
    /\ singleOut = [success |-> FALSE, error |-> "Unexpected token < in JSON"]

----------------------------------------------------------------------------
(* Termination of the splitting loop, under SpecSplit *)

\* the call has passed the early return with a positive chunk duration
LoopEntered ==
    /\ splitPc \in {"loop", "returned", "threw"}
    /\ splitIn.decodable
    /\ RatLess(RatInt(0), splitIn.chunkDurationSeconds)
    /\ RatLess(splitIn.chunkDurationSeconds, BufferDuration(splitIn))

SplitSamplesPerChunk == SamplesPerChunk(splitIn.chunkDurationSeconds, splitIn.sampleRate)

\* ceil(totalSamples / samplesPerChunk)
IterationsExpected == RatCeil(RatDiv(RatInt(splitIn.length), SplitSamplesPerChunk))

\* after k iterations the position is k chunks on, the last one cut at the end;
\* the loop runs IterationsExpected times, never fails and ends at totalSamples
LoopRunsToTheEnd ==
    /\ splitPc # "threw"
    /\ chunkIndex <= IterationsExpected
    /\ currentSample =
           RatMin(RatMul(RatInt(chunkIndex), SplitSamplesPerChunk), RatInt(splitIn.length))
    /\ chunkIndex < IterationsExpected =>
           /\ splitPc = "loop"
           /\ RatLess(currentSample, RatInt(splitIn.length))
    /\ chunkIndex = IterationsExpected => currentSample = RatInt(splitIn.length)
    /\ splitPc = "returned" =>
           /\ chunkIndex = IterationsExpected
           /\ Len(splitChunks) = IterationsExpected

\* C30: for a positive chunk duration and a decoded buffer longer than it, the
\* loop of splitAudioIntoChunks advances the position on every iteration and
\* ends after exactly ceil(totalSamples / samplesPerChunk) iterations with the
\* position at totalSamples.
C30_LoopTerminates == LoopEntered => LoopRunsToTheEnd

\* the same when chunkDurationSeconds * sampleRate is a whole number of samples
LoopTerminatesOnWholeChunks ==
    (LoopEntered /\ SplitSamplesPerChunk.d = 1) => LoopRunsToTheEnd

\* 2 samples at 1 Hz in chunks of 1.5 s: the second iteration asks createBuffer
\* for half a frame and throws, the position left at 1.5
LoopEndsByThrowing ==
    /\ LoopEntered
    /\ splitIn.length = 2 /\ splitIn.sampleRate = 1
    /\ splitIn.chunkDurationSeconds = Rat(3, 2)
    /\ splitPc = "threw"
    /\ splitError = "createBuffer"
    /\ chunkIndex = 1
    /\ currentSample = Rat(3, 2)
    /\ audioContext = "running"

\* 7 samples at 2 Hz in chunks of 1.5 s: three iterations, the last of one sample
WholeChunksLoopReturned ==
    /\ LoopEntered
    /\ splitIn.length = 7 /\ splitIn.sampleRate = 2
    /\ splitIn.chunkDurationSeconds = Rat(3, 2)
    /\ splitPc = "returned"
    /\ chunkIndex = 3
    /\ currentSample = RatInt(7)

----------------------------------------------------------------------------
(* The audio context of splitAudioIntoChunks, under SpecSplit *)

SplitCompleted == splitPc \in {"returned", "threw"}

\* C37: when a call of splitAudioIntoChunks has completed, by returning or by
\* throwing, the audio context it created is closed.
C37_ContextClosed == SplitCompleted => audioContext = "closed"

\* the path through the loop to its end closes the context
MultiChunkPathCloses ==
    (splitPc = "returned" /\ ~FitsOneChunk(splitIn, splitIn.chunkDurationSeconds)) =>
        audioContext = "closed"

\* the early return and a failed decode leave the context running
ContextLeftRunning ==
    (SplitCompleted
     /\ (~splitIn.decodable \/ FitsOneChunk(splitIn, splitIn.chunkDurationSeconds))) =>
        audioContext = "running"

\* a file of one chunk has been returned, its context still running
EarlyReturnLeavesContext ==
    /\ splitPc = "returned"
    /\ Len(splitChunks) = 1
    /\ splitChunks[1].blob.kind = "file"
    /\ audioContext = "running"

\* a failed decode has thrown, its context still running
FailedDecodeLeavesContext ==
    /\ splitPc = "threw"
    /\ splitError = "decodeAudioData"
    /\ audioContext = "running"

----------------------------------------------------------------------------
(* The payloads of a request that needs chunking, under Spec *)

ChunkingRequired == chunkCheck # Undefined /\ chunkCheck.needsChunking

\* a payload encoded from a window of at most one chunk duration of the buffer
ReencodedChunk(payload) ==
    /\ payload.kind = "wav"
    /\ payload.frames <= CHUNK_DURATION_SECONDS * file.sampleRate

\* C32: when checkIfNeedsChunking requires chunking, every payload that
\* transcribeAudio uploads is a re-encoded chunk of at most the chunk duration,
\* never the uploaded file itself, also when only the size requires chunking.
C32_NeverUploadsWholeFile ==
    ChunkingRequired => \A k \in 1..Len(calls) : ReencodedChunk(calls[k].payload)

\* the same for the files longer than the chunk duration
LongFilesAreReencoded ==
    (ChunkingRequired /\ file.length > CHUNK_DURATION_SECONDS * file.sampleRate) =>
        \A k \in 1..Len(calls) : ReencodedChunk(calls[k].payload)

\* a file over the size limit and no longer than a chunk was uploaded as it is
OversizedShortFileUploadedWhole ==
    /\ ChunkingRequired
    /\ file.size > MaxSizeBytes
    /\ file.length <= CHUNK_DURATION_SECONDS * file.sampleRate
    /\ Len(chunks) = 1
    /\ Len(calls) = 1
    /\ calls[1].payload = FileBlob(file)

----------------------------------------------------------------------------
(* The announced and the actual number of chunks, under Spec *)

\* the extraction has returned its chunks for a file whose probe succeeded
ExtractedAfterProbe ==
    /\ ChunkingRequired
    /\ file.probeOk
    /\ pc \in {"loop", "awaitChunk", "done"}
    /\ chunks # <<>>

ChunkingNotes == SelectSeq(notifications, LAMBDA n : n.status = "chunking")

TotalChunksNotes ==
    SelectSeq(notifications, LAMBDA n : "totalChunks" \in DOMAIN n /\ n.status = "transcribing")

\* C34: when the probe gave the duration that the decoder reports and chunking
\* is required, the estimatedChunks of the classifier, announced in the
\* chunking notification, is the number of chunks splitAudioIntoChunks
\* returned, announced as totalChunks.
C34_EstimateMatchesChunks ==
    ExtractedAfterProbe =>
        /\ chunkCheck.estimatedChunks = Len(chunks)
        /\ SinkListens =>
               /\ Len(ChunkingNotes) = 1
               /\ ChunkingNotes[1].message.N = Len(chunks)
               /\ Len(TotalChunksNotes) >= 1
               /\ TotalChunksNotes[1].totalChunks = Len(chunks)

\* a file of 601 s at 2 Hz was announced as 3 chunks and split into 3
C34_Witness ==
    /\ ExtractedAfterProbe
    /\ SinkListens
    /\ file.length = 1202 /\ file.sampleRate = 2
    /\ Len(chunks) = 3
    /\ ChunkingNotes[1].message.N = 3

----------------------------------------------------------------------------
(* C35: the merged segments stay inside their chunk's range and in time order *)

\* the chunk calls that returned successfully, in the order they were merged
MergedCalls == {k \in 1..Len(calls) : IsChunkCall(k) /\ calls[k].status = "ok"}

\* the length of the k-th chunk on its own time line
LocalEnd(k) == RatSub(chunks[k].endTime, chunks[k].startTime)

\* the provider answered the k-th call with segments inside the chunk's local
\* range [0, endTime - startTime], each ending no earlier than it starts, in
\* time order
ProviderInLocalRange(k) ==
    LET given == ProviderSegments(k)
    IN /\ \A j \in 1..Len(given) :
              /\ RatLeq(RatInt(0), given[j].start)
              /\ RatLeq(given[j].start, given[j].end)
              /\ RatLeq(given[j].end, LocalEnd(k))
       /\ \A j \in 1..(Len(given) - 1) : RatLeq(given[j].start, given[j + 1].start)

\* the merged segments, each with the call it came from
RECURSIVE TaggedSegments(_)
TaggedSegments(m) ==
    IF m = 0
    THEN <<>>
    ELSE TaggedSegments(m - 1)
         \o (IF m \in MergedCalls
             THEN [j \in 1..Len(calls[m].returned.segments) |->
                       [call |-> m, seg |-> calls[m].returned.segments[j]]]
             ELSE <<>>)

MergedSoFar ==
    IF pc = "awaitChunk" \/ (pc = "done" /\ Len(calls) > 0 /\ calls[Len(calls)].status # "ok")
    THEN Len(calls) - 1
    ELSE Len(calls)

\* C35: in a chunked request whose provider keeps every chunk's segments inside
\* the chunk's local range and in time order, the merged segment list is the
\* chunks' segments in chunk order, every segment of chunk k lies within
\* [startTime_k, endTime_k] on the file's time line, the starts never decrease
\* along the merged list, and no segment of a later chunk starts before a
\* segment of an earlier chunk ends.
C35_MergedSegmentsInRange ==
    (chunkCheck # Undefined /\ chunkCheck.needsChunking /\ Len(chunks) > 0
        /\ \A k \in MergedCalls : ProviderInLocalRange(k)) =>
        LET tagged == TaggedSegments(MergedSoFar)
        IN /\ allSegments = [j \in 1..Len(tagged) |-> tagged[j].seg]
           /\ \A j \in 1..Len(tagged) :
                  /\ RatLeq(chunks[tagged[j].call].startTime, tagged[j].seg.start)
                  /\ RatLeq(tagged[j].seg.end, chunks[tagged[j].call].endTime)
           /\ \A j \in 1..(Len(tagged) - 1) :
                  RatLeq(tagged[j].seg.start, tagged[j + 1].seg.start)
           /\ \A a, b \in 1..Len(tagged) :
                  tagged[a].call < tagged[b].call =>
                      RatLeq(tagged[a].seg.end, tagged[b].seg.start)
           /\ (pc = "done" /\ "success" \in DOMAIN result /\ result.success) =>
                  result.segments = allSegments

\* two chunks with two segments each were merged, the second chunk's segments
\* inside 300 s .. 600 s
C35_Witness ==
    /\ pc = "done"
    /\ "success" \in DOMAIN result
    /\ result.success
    /\ Len(chunks) = 2
    /\ MergedCalls = {1, 2}
    /\ ProviderInLocalRange(1) /\ ProviderInLocalRange(2)
    /\ Len(allSegments) = 4
    /\ allSegments[2].end = RatInt(4)
    /\ allSegments[3].start = RatInt(300)
    /\ allSegments[4].end = RatInt(304)

----------------------------------------------------------------------------
(* Claims about audioBufferToWav, checked under SpecWav *)

\* trunc(clamp(sample) * 32767), computed from the sample's sign and magnitude
ExpectedInt16(sample) ==
    IF sample.n >= sample.d THEN 32767
    ELSE IF -sample.n >= sample.d THEN -32767
    ELSE IF sample.n >= 0 THEN (sample.n * 32767) \div sample.d
    ELSE -(((-sample.n) * 32767) \div sample.d)

\* the byte offset of channel c (from 0) of frame f (from 0)
InterleavedOffset(f, c) == 44 + 2 * (f * wavBuffer.numberOfChannels + c)

\* the (frame, channel) pairs whose value is written so far
WrittenPairs ==
    {fc \in (0..(wavBuffer.length - 1)) \X (0..(wavBuffer.numberOfChannels - 1)) :
        InterleavedOffset(fc[1], fc[2]) < wavOffset}

\* C31: every 16-bit value written lies in [-32767, 32767] and equals
\* trunc(clamp(sample) * 32767) of the sample of its frame and channel; the values
\* are interleaved frame by frame, channel by channel from byte 44 on; and the data
\* size in the header, as the number of bytes written at return, is
\* frames * channels * 2.
C31_WavSamplesClamped ==
    wavPc \in {"loop", "returned"} =>
        /\ \A o \in DOMAIN wavView.samples :
               wavView.samples[o] >= -32767 /\ wavView.samples[o] <= 32767
        /\ DOMAIN wavView.samples =
               {InterleavedOffset(fc[1], fc[2]) : fc \in WrittenPairs}
        /\ \A fc \in WrittenPairs :
               wavView.samples[InterleavedOffset(fc[1], fc[2])]
                   = ExpectedInt16(wavBuffer.channelData[fc[2] + 1][fc[1] + 1])
        /\ wavView.header.dataLength = wavBuffer.length * wavBuffer.numberOfChannels * 2
        /\ wavPc = "returned" =>
               /\ Cardinality(DOMAIN wavView.samples) * 2 = wavView.header.dataLength
               /\ wavOffset = 44 + wavView.header.dataLength
               /\ wavOut.size = 44 + wavView.header.dataLength

\* a two-channel buffer of two frames was encoded: a sample over 1 gave 32767, one
\* under -1 gave -32767, -1/2 gave -16383 and 1/3 gave 10922, in interleaved order
C31_Witness ==
    /\ wavPc = "returned"
    /\ wavBuffer.numberOfChannels = 2
    /\ wavBuffer.length = 2
    /\ wavBuffer.channelData[1] = <<Rat(3, 2), Rat(-1, 2)>>
    /\ wavBuffer.channelData[2] = <<Rat(-3, 2), Rat(1, 3)>>
    /\ wavView.samples[44] = 32767
    /\ wavView.samples[46] = -32767
    /\ wavView.samples[48] = -16383
    /\ wavView.samples[50] = 10922
    /\ wavView.header.dataLength = 8

----------------------------------------------------------------------------
(* C33: chunk information whenever chunking is reported, under SpecPrepare *)

\* prepareForTranscription resolved with processing.needsChunking = true
ReportsChunking ==
    /\ preparePc = "done"
    /\ prepareOut.ready
    /\ prepareOut.processing.needsChunking = JsBoolean(TRUE)

\* the chunks of a chunkInfo cover [0, duration] contiguously
CoversDuration(chunkInfo, duration) ==
    LET cs == chunkInfo.chunks
    IN /\ chunkInfo.numberOfChunks >= 1
       /\ Len(cs) = chunkInfo.numberOfChunks
       /\ cs[1].startTime = RatInt(0)
       /\ cs[Len(cs)].endTime = duration
       /\ \A k \in 1..Len(cs) : RatLess(cs[k].startTime, cs[k].endTime)
       /\ \A k \in 1..(Len(cs) - 1) : cs[k + 1].startTime = cs[k].endTime

\* C33: whenever prepareForTranscription reports needsChunking = true it reports
\* a chunkInfo that is not null, has at least one chunk, and whose chunks cover
\* [0, duration] contiguously, whatever the size, the duration and the outcome of
\* the duration probe.
C33_ChunkInfoWhenChunking ==
    ReportsChunking =>
        /\ prepareOut.processing.chunkInfo # Null
        /\ prepareIn.probeOk
        /\ CoversDuration(prepareOut.processing.chunkInfo, ProbedDuration(prepareIn))

\* with a probe that gave a duration over 0 the chunk information is there and
\* covers the duration
ChunkInfoWhenProbed ==
    (ReportsChunking /\ prepareIn.probeOk /\ prepareIn.length > 0) =>
        /\ prepareOut.processing.chunkInfo # Null
        /\ CoversDuration(prepareOut.processing.chunkInfo, ProbedDuration(prepareIn))

\* an oversized file whose probe failed: chunking is reported without chunkInfo
ChunkingWithoutChunkInfo ==
    /\ ReportsChunking
    /\ ~prepareIn.probeOk
    /\ prepareIn.size > MAX_FILE_SIZE_BYTES
    /\ prepareOut.processing.chunkInfo = Null

\* an oversized file of duration 0: chunking is reported with no chunk at all
ChunkingWithZeroChunks ==
    /\ ReportsChunking
    /\ prepareIn.probeOk
    /\ prepareIn.length = 0
    /\ prepareOut.processing.chunkInfo # Null
    /\ prepareOut.processing.chunkInfo.numberOfChunks = 0

\* a file of 601 s: two chunks, 0..600 and 600..601
ChunkInfoOfLongFile ==
    /\ ReportsChunking
    /\ prepareIn.probeOk
    /\ prepareIn.length = 601
    /\ prepareOut.processing.chunkInfo.numberOfChunks = 2
    /\ prepareOut.processing.chunkInfo.chunks[2].endTime = RatInt(601)

----------------------------------------------------------------------------
(* C36: no result for a removed file, checked under SpecUi *)

\* C36: after handleRemoveFile cleared the selection, the transcription state is
\* null as long as no new transcription is started, also when a transcribeAudio
\* request was in flight at the removal and resolves afterwards.
C36_RemovedStaysNull == removedSince => transcription = Null

\* handleRemoveFile itself leaves no result, no status and no progress
RemoveClearsResult ==
    [][(removedSince' /\ ~removedSince) =>
           (transcription' = Null /\ uiFile' = Null /\ fileInfo' = Null)]_vars

\* the request that was in flight at the removal resolved: its result is shown
\* although no file is selected
StaleResultShown ==
    /\ removedSince
    /\ uiFile = Null
    /\ inflight = Null
    /\ transcription # Null
    /\ transcription.text = <<"a">>

\* the same with another file selected meanwhile: the result of the removed file
\* is shown under the new file
StaleResultUnderOtherFile ==
    /\ removedSince
    /\ uiFile # Null
    /\ uiFile.name = "b"
    /\ transcription # Null
    /\ transcription.text = <<"a">>

====
